---- MODULE Spec2Model ----
(***************************************************************************)
(* Model of the valuation app: the Rule #1 valuation engine                *)
(* (src/lib/valuations/rule1.ts) and the fact-normalisation pipeline of    *)
(* the financials route (src/app/api/financials/route.ts).                 *)
(*                                                                         *)
(* Numbers.  A JavaScript number is modelled as a record                   *)
(*   [k |-> "fin", n |-> numerator, d |-> denominator]   a finite value,   *)
(*   [k |-> "inf", n |-> +1 or -1, d |-> 1]              +/-Infinity,      *)
(*   [k |-> "nan", ...]                                  NaN,              *)
(*   [k |-> "null", ...]                                 null.             *)
(* Finite values are exact rationals in lowest terms; the rounding of      *)
(* IEEE-754 doubles is not modelled, except that Math.pow(x, 1/n) (an      *)
(* irrational number in general) is rounded down to a multiple of          *)
(* 1/RootScale.                                                            *)
(*                                                                         *)
(* Dates.  An ISO date string "YYYY-MM-DD" is modelled as the integer      *)
(* YYYYMMDD; the lexicographic order of well-formed ISO dates is the order *)
(* of these integers.                                                      *)
(***************************************************************************)
EXTENDS Integers, Sequences, FiniteSets, TLC

VARIABLES
  \* the valuation engine: its two arguments and the value it returned
  inputs, knobs, result,
  \* the route: the company facts, the series normalized from them and how
  \* far the request has got
  facts, revenueRaw, revenue, epsRaw, eps, ocf, phase,
  \* the nearest-date lookups made for one period end
  nearest,
  \* a call of closeOnOrBefore: its arguments, its locals and its result
  search,
  \* a request to the route: how far GET has got and what it holds, the
  \* response it sent, and the module-level caches
  request, response, tickerToCikCache, stooqHistoryCache,
  \* the calls of fetchStooqDailyHistory in progress
  calls

rule1Vars == <<inputs, knobs, result>>

seriesVars == <<facts, revenueRaw, revenue, epsRaw, eps, ocf, phase>>

httpVars == <<request, response, tickerToCikCache, stooqHistoryCache, calls>>

lookupVars == <<nearest, search, request, response, tickerToCikCache, stooqHistoryCache, calls>>

vars == <<inputs, knobs, result, facts, revenueRaw, revenue, epsRaw, eps, ocf, phase,
          nearest, search, request, response, tickerToCikCache, stooqHistoryCache, calls>>

(***************************************************************************)
(* Bounds of the model.                                                    *)
(***************************************************************************)
\* longest input series handed to calculateRule1
MaxPoints == 11
\* most fiscal periods a filed tag covers
MaxPeriods == 11
\* most facts filed in the array of the first tag a nearest-date lookup reads
MaxCandidates == 2
\* most calls of fetchStooqDailyHistory in progress at a time
MaxCalls == 3
\* most entries of a daily price history
MaxHistory == 4
\* largest valuation horizon (the knob `years`)
MaxYears == 3
\* Math.pow(x, 1/n) is rounded down to a multiple of 1/RootScale
RootScale == 4

(***************************************************************************)
(* JavaScript numbers.                                                     *)
(***************************************************************************)
Abs(x) == IF x < 0 THEN -x ELSE x

Sign(x) == IF x < 0 THEN -1 ELSE IF x > 0 THEN 1 ELSE 0

RECURSIVE GCD(_, _)
GCD(a, b) == IF b = 0 THEN a ELSE GCD(b, a % b)

Null == [k |-> "null", n |-> 0, d |-> 1]

NaN == [k |-> "nan", n |-> 0, d |-> 1]

Inf(s) == [k |-> "inf", n |-> s, d |-> 1]

\* the rational n/d (d # 0) in lowest terms with a positive denominator
Fin(n, d) ==
  LET g == GCD(Abs(n), Abs(d))
      s == IF d < 0 THEN -1 ELSE 1
  IN  [k |-> "fin", n |-> s * (n \div g), d |-> s * (d \div g)]

Num(i) == Fin(i, 1)

\* Number.isFinite(x): false for null, NaN and the infinities
NumberIsFinite(x) == x.k = "fin"

\* a < b for finite a, b
NumLess(a, b) == a.n * b.d < b.n * a.d

NumLeq(a, b) == a.n * b.d <= b.n * a.d

\* a + b for finite a, b
NumAdd(a, b) == Fin(a.n * b.d + b.n * a.d, a.d * b.d)

\* a - b for finite a, b
NumSub(a, b) == Fin(a.n * b.d - b.n * a.d, a.d * b.d)

\* a * b as IEEE-754 defines it on NaN, infinities and zero
NumMul(a, b) ==
  IF a.k = "nan" \/ b.k = "nan" THEN NaN
  ELSE IF a.k = "inf" \/ b.k = "inf"
       THEN IF a.n = 0 \/ b.n = 0 THEN NaN ELSE Inf(Sign(a.n) * Sign(b.n))
       ELSE Fin(a.n * b.n, a.d * b.d)

\* a / b as IEEE-754 defines it: x/0 is an infinity, 0/0 is NaN
NumDiv(a, b) ==
  IF a.k = "nan" \/ b.k = "nan" THEN NaN
  ELSE IF a.k = "inf"
       THEN IF b.k = "inf" THEN NaN
            ELSE Inf(a.n * (IF b.n < 0 THEN -1 ELSE 1))
       ELSE IF b.k = "inf" THEN Num(0)
            ELSE IF b.n = 0
                 THEN IF a.n = 0 THEN NaN ELSE Inf(Sign(a.n))
                 ELSE Fin(a.n * b.d, a.d * b.n)

\* Math.min / Math.max on finite arguments
MathMin(a, b) == IF NumLess(b, a) THEN b ELSE a

MathMax(a, b) == IF NumLess(a, b) THEN b ELSE a

RECURSIVE IntPow(_, _)
IntPow(b, e) == IF e = 0 THEN 1 ELSE b * IntPow(b, e - 1)

\* Math.pow(x, e) for a finite x and an integer e >= 0
MathPow(x, e) == Fin(IntPow(x.n, e), IntPow(x.d, e))

\* min(b^e, cap), computed without exceeding cap * b
RECURSIVE CapPow(_, _, _)
CapPow(b, e, cap) ==
  IF e = 0 THEN 1
  ELSE LET p == CapPow(b, e - 1, cap)
       IN  IF p >= cap \/ p * b >= cap THEN cap ELSE p * b

PowCap == 200000000

\* (k / RootScale)^n <= x, for a finite x > 0
RootFits(k, x, n) ==
  LET lhs == CapPow(k, n, PowCap)
      rhs == CapPow(RootScale, n, PowCap)
  IN  /\ lhs < PowCap
      /\ lhs * x.d <= x.n * rhs

\* Math.pow(x, 1 / n) for a finite x > 0 and an integer n >= 1, rounded
\* down to a multiple of 1/RootScale
RECURSIVE RootSearch(_, _, _)
RootSearch(k, x, n) ==
  IF RootFits(k + 1, x, n) THEN RootSearch(k + 1, x, n) ELSE k

MathRoot(x, n) == Fin(RootSearch(0, x, n), RootScale)

(***************************************************************************)
(* rule1.ts: the valuation engine.                                         *)
(* A SeriesPoint is [end |-> YYYYMMDD, val |-> number].                    *)
(***************************************************************************)
GrowthBases == {"bvps_5y", "bvps_10y", "fcf_5y", "fcf_10y", "eps_5y", "eps_10y"}

growthBasisLabel(b) ==
  CASE b = "bvps_5y"  -> "BVPS last 5 years"
    [] b = "bvps_10y" -> "BVPS last 10 years"
    [] b = "fcf_5y"   -> "Free Cash Flow last 5 years"
    [] b = "fcf_10y"  -> "Free Cash Flow last 10 years"
    [] b = "eps_5y"   -> "EPS last 5 years"
    [] b = "eps_10y"  -> "EPS last 10 years"

\* Number(end.slice(0, 4))
yearOf(end) == end \div 10000

cagr_endUnchecked(start, end, years) ==
  IF ~NumberIsFinite(start) \/ ~NumberIsFinite(end) \/ years <= 0 THEN Num(0)
  ELSE IF start.n <= 0 THEN Num(0)
  ELSE NumSub(MathRoot(NumDiv(end, start), years), Num(1))

cagr(start, end, years) ==
  IF ~NumberIsFinite(start) \/ ~NumberIsFinite(end) \/ years <= 0 THEN Num(0)
  ELSE IF start.n <= 0 \/ end.n <= 0 THEN Num(0)
  ELSE NumSub(MathRoot(NumDiv(end, start), years), Num(1))

\* the stable insertion of p into a sequence sorted by end
RECURSIVE InsertByEnd(_, _)
InsertByEnd(sorted, p) ==
  IF sorted = <<>> THEN <<p>>
  ELSE IF sorted[Len(sorted)].end <= p.end THEN Append(sorted, p)
  ELSE Append(InsertByEnd(SubSeq(sorted, 1, Len(sorted) - 1), p), sorted[Len(sorted)])

\* Array.prototype.sort with the comparator of period ends (a stable sort)
RECURSIVE SortByEnd(_)
SortByEnd(s) ==
  IF s = <<>> THEN <<>>
  ELSE InsertByEnd(SortByEnd(SubSeq(s, 1, Len(s) - 1)), s[Len(s)])

IsUsablePoint(p) == NumberIsFinite(p.val)

normalizeSeries_unsorted(series) == SelectSeq(series, IsUsablePoint)

normalizeSeries(series) == SortByEnd(SelectSeq(series, IsUsablePoint))

computeGrowthByPoints(series, points) ==
  LET s == normalizeSeries(series)
  IN  IF Len(s) < points THEN [isNull |-> TRUE]
      ELSE LET end == s[Len(s)]
               start == s[Len(s) - points + 1]
               d == yearOf(end.end) - yearOf(start.end)
               yearsActual == IF d > 1 THEN d ELSE 1
           IN  [isNull |-> FALSE, start |-> start, end |-> end,
                yearsActual |-> yearsActual,
                growth |-> cagr(start.val, end.val, yearsActual)]

pointsNeededForBasis_five(b) ==
  CASE b \in {"bvps_5y", "fcf_5y", "eps_5y"} -> 5
    [] b \in {"bvps_10y", "fcf_10y", "eps_10y"} -> 10

pointsNeededForBasis(b) ==
  CASE b \in {"bvps_5y", "fcf_5y", "eps_5y"} -> 6
    [] b \in {"bvps_10y", "fcf_10y", "eps_10y"} -> 10

\* the series the requested basis reads
basisSeriesOf(inp, basisKey) ==
  IF basisKey \in {"bvps_5y", "bvps_10y"} THEN inp.bookValuePerShareUSD
  ELSE IF basisKey \in {"fcf_5y", "fcf_10y"} THEN inp.freeCashFlowUSD
  ELSE inp.eps

peUnusable_zeroAllowed(pe) == pe.k = "null" \/ ~NumberIsFinite(pe) \/ pe.n < 0

\* the preconditions on the historic P/E
peUnusable(pe) == pe.k = "null" \/ ~NumberIsFinite(pe) \/ pe.n <= 0

latestEpsOf_first(epsSeries) == epsSeries[1].val

\* the value of the last point of the normalized EPS series
latestEpsOf(epsSeries) == epsSeries[Len(epsSeries)].val

chosenGrowthOf_max(analystGrowth, basisGrowth) == MathMax(analystGrowth, basisGrowth)

chosenGrowthOf(analystGrowth, basisGrowth) == MathMin(analystGrowth, basisGrowth)

futureValueOf_divided(latestEps, pe, chosenGrowth, years) ==
  NumDiv(NumMul(latestEps, pe), MathPow(NumAdd(Num(1), chosenGrowth), years))

\* valuation = latest EPS x historic PE x (1 + minGrowth)^years
futureValueOf(latestEps, pe, chosenGrowth, years) ==
  NumMul(NumMul(latestEps, pe), MathPow(NumAdd(Num(1), chosenGrowth), years))

stickerPriceOf_simple(futureValue, desiredReturn, years) ==
  NumDiv(futureValue, NumAdd(Num(1), NumMul(desiredReturn, Num(years))))

\* sticker = valuation / (1 + desiredReturn)^years
stickerPriceOf(futureValue, desiredReturn, years) ==
  NumDiv(futureValue, MathPow(NumAdd(Num(1), desiredReturn), years))

mosFactorOf_unclamped(marginOfSafetyPercent) ==
  NumDiv(NumSub(Num(100), marginOfSafetyPercent), Num(100))

\* the margin-of-safety factor
mosFactorOf(marginOfSafetyPercent) ==
  MathMax(Num(0), MathMin(Num(1),
      NumDiv(NumSub(Num(100), marginOfSafetyPercent), Num(100))))

\* MOS price = sticker x (100 - MOS)%
stickerPriceWithMOSOf(stickerPrice, mosFactor) == NumMul(stickerPrice, mosFactor)

\* the value calculateRule1 returns: [kind |-> "null"], a Rule1Failure
\* (kind "failure") or a Rule1Result (kind "result")
calculateRule1(inp, kn) ==
  LET epsSeries == normalizeSeries(inp.eps)
      pe == inp.historicPeRatio
  IN
  IF Len(epsSeries) = 0 THEN [kind |-> "null"]
  ELSE IF peUnusable(pe) THEN [kind |-> "null"]
  ELSE
    LET latestEps == latestEpsOf(epsSeries)
        basisKey == kn.growthBasis
        basisLabel == growthBasisLabel(basisKey)
        basisSeries == basisSeriesOf(inp, basisKey)
        pointsNeeded == pointsNeededForBasis(basisKey)
        normalized == normalizeSeries(basisSeries)
        pointsAvailable == Len(normalized)
        g == computeGrowthByPoints(normalized, pointsNeeded)
    IN
    IF g.isNull
    THEN [kind |-> "failure",
          error |-> [type |-> "GROWTH_BASIS_UNAVAILABLE",
                     message |-> <<"Not enough data to compute ", basisLabel,
                                   " (need ", pointsNeeded,
                                   " annual points, have ", pointsAvailable, ")">>,
                     growthBasis |-> basisKey,
                     pointsNeeded |-> pointsNeeded,
                     pointsAvailable |-> pointsAvailable]]
    ELSE
      LET basisGrowth == g.growth
          chosenGrowth == chosenGrowthOf(kn.analystGrowth, basisGrowth)
          futureValue == futureValueOf(latestEps, pe, chosenGrowth, kn.years)
          stickerPrice == stickerPriceOf(futureValue, kn.desiredReturn, kn.years)
          mosFactor == mosFactorOf(kn.marginOfSafetyPercent)
          stickerPriceWithMOS == stickerPriceWithMOSOf(stickerPrice, mosFactor)
      IN  [kind |-> "result",
           latestEps |-> latestEps,
           basis |-> [key |-> basisKey,
                      label |-> basisLabel,
                      pointsUsed |-> pointsNeeded,
                      yearsActual |-> g.yearsActual,
                      startEnd |-> g.start.end,
                      endEnd |-> g.end.end,
                      startVal |-> g.start.val,
                      endVal |-> g.end.val,
                      growth |-> basisGrowth],
           chosenGrowth |-> chosenGrowth,
           historicPeUsed |-> pe,
           futureValue |-> futureValue,
           stickerPrice |-> stickerPrice,
           stickerPriceWithMOS |-> stickerPriceWithMOS,
           currentPrice |-> inp.latestPriceUSD]

(***************************************************************************)
(* route.ts: the fact-normalisation pipeline.                              *)
(* The company facts are [usGaap |-> a function from the filed tags to     *)
(* nodes]; a node is [hasUnits |-> is `units` an object, units |-> the     *)
(* sequence of its entries in key order]; an entry is [key |-> unit key,   *)
(* isArray |-> is the value an array, items |-> its elements].  A raw fact *)
(* is [present |-> FALSE for a null element, end |-> YYYYMMDD or 0 when    *)
(* `end` is not a string, val, form, fp, frame |-> "" when not a string].  *)
(* A YearPoint is [end |-> YYYYMMDD, val |-> number].                      *)
(***************************************************************************)
\* typeof x === "number" && Number.isFinite(x)
isFiniteNumber(x) == x.k = "fin"

MathAbs_signed(x) == x

\* Math.abs of a finite number
MathAbs(x) == Fin(Abs(x.n), x.d)

\* the frame labels matched by /Q[1-4]/
QuarterlyFrames == {"CY2020Q4", "CY2019Q1I"}

\* the filter both normalizers apply to a raw fact
qualifiesAnnual(x) ==
  /\ x.present
  /\ x.form = "10-K"
  /\ x.fp = "FY"
  /\ x.end > 0
  /\ isFiniteNumber(x.val)
  /\ ~(x.frame # "" /\ x.frame \in QuarterlyFrames)

\* .map((x) => ({ end: x.end, val: x.val }))
RECURSIVE toYearPoints(_)
toYearPoints(arr) ==
  IF arr = <<>> THEN <<>>
  ELSE <<[end |-> arr[1].end, val |-> arr[1].val]>> \o toYearPoints(Tail(arr))

\* the index of the entry of a Map (a sequence of entries in insertion
\* order) whose key is `end`, or 0
mapIndexOf(byEnd, end) ==
  IF \E i \in 1..Len(byEnd) : byEnd[i].end = end
  THEN CHOOSE i \in 1..Len(byEnd) : byEnd[i].end = end
  ELSE 0

byEndPut_append(byEnd, p) == Append(byEnd, p)

\* one step of the deduplication loop: keep the biggest absolute value
byEndPut(byEnd, p) ==
  LET i == mapIndexOf(byEnd, p.end)
  IN  IF i = 0 THEN Append(byEnd, p)
      ELSE IF NumLess(MathAbs(byEnd[i].val), MathAbs(p.val))
           THEN [byEnd EXCEPT ![i] = p]
           ELSE byEnd

RECURSIVE dedupeByEnd(_)
dedupeByEnd(points) ==
  IF points = <<>> THEN <<>>
  ELSE byEndPut(dedupeByEnd(SubSeq(points, 1, Len(points) - 1)), points[Len(points)])

\* facts?.facts?.["us-gaap"]?.[tag]?.units, as the sequence of its entries
unitsOf(fx, tag) ==
  IF tag \in DOMAIN fx.usGaap /\ fx.usGaap[tag].hasUnits
  THEN fx.usGaap[tag].units
  ELSE <<>>

\* the annual series one candidate tag yields in pickAnnualSeriesByUnit
annualOfTag(fx, tag, unitPredicate) ==
  LET node == unitsOf(fx, tag)
      hits == { i \in 1..Len(node) : node[i].key \in unitPredicate }
  IN  IF hits = {} THEN <<>>
      ELSE LET unit == node[CHOOSE i \in hits : \A j \in hits : i <= j]
           IN  IF ~unit.isArray THEN <<>>
               ELSE SortByEnd(dedupeByEnd(toYearPoints(SelectSeq(unit.items, qualifiesAnnual))))

pickAnnualSeriesByUnit_lastTag(fx, tagCandidates, unitPredicate) ==
  LET yielding == { i \in 1..Len(tagCandidates) :
                      annualOfTag(fx, tagCandidates[i], unitPredicate) # <<>> }
  IN  IF yielding = {} THEN <<>>
      ELSE annualOfTag(fx, tagCandidates[CHOOSE i \in yielding : \A j \in yielding : j <= i],
                       unitPredicate)

\* unitPredicate is given as the set of the unit keys it accepts
pickAnnualSeriesByUnit(fx, tagCandidates, unitPredicate) ==
  LET yielding == { i \in 1..Len(tagCandidates) :
                      annualOfTag(fx, tagCandidates[i], unitPredicate) # <<>> }
  IN  IF yielding = {} THEN <<>>
      ELSE annualOfTag(fx, tagCandidates[CHOOSE i \in yielding : \A j \in yielding : i <= j],
                       unitPredicate)

\* (u) => u === "USD"
unitIsUSD == {"USD"}

\* (u) => u.toLowerCase().includes("usd") && u.toLowerCase().includes("shares")
unitIsEPS == {"USD/shares", "usd/Shares", "USD/SHARES"}

pickAnnualUSDSeries(fx, tagCandidates) == pickAnnualSeriesByUnit(fx, tagCandidates, unitIsUSD)

pickAnnualEPSSeries(fx, tagCandidates) == pickAnnualSeriesByUnit(fx, tagCandidates, unitIsEPS)

\* the qualifying facts filed in USD under the candidate tags, tag by tag
RECURSIVE allQualifyingUSD(_, _)
allQualifyingUSD(fx, tagCandidates) ==
  IF tagCandidates = <<>> THEN <<>>
  ELSE LET node == unitsOf(fx, tagCandidates[Len(tagCandidates)])
           hits == { i \in 1..Len(node) : node[i].key = "USD" /\ node[i].isArray }
           here == IF hits = {} THEN <<>>
                   ELSE toYearPoints(SelectSeq(node[CHOOSE i \in hits : TRUE].items,
                                               qualifiesAnnual))
       IN  allQualifyingUSD(fx, SubSeq(tagCandidates, 1, Len(tagCandidates) - 1)) \o here

mergeAnnualUSDSeries(fx, tagCandidates) ==
  SortByEnd(dedupeByEnd(allQualifyingUSD(fx, tagCandidates)))

\* Number(p.end.slice(5, 7))
monthOf(end) == (end \div 100) % 100

\* the month counts in the order in which the months first occur
RECURSIVE monthCountsOf(_)
monthCountsOf(series) ==
  IF series = <<>> THEN <<>>
  ELSE LET counts == monthCountsOf(SubSeq(series, 1, Len(series) - 1))
           m == monthOf(series[Len(series)].end)
       IN  IF \E i \in 1..Len(counts) : counts[i].month = m
           THEN [i \in 1..Len(counts) |->
                   IF counts[i].month = m
                   THEN [month |-> m, count |-> counts[i].count + 1]
                   ELSE counts[i]]
           ELSE Append(counts, [month |-> m, count |-> 1])

bestMonthOf_first(counts) == counts[1].month

\* the first month, in insertion order, with the greatest count
bestMonthOf(counts) ==
  LET i == CHOOSE i \in 1..Len(counts) :
             /\ \A j \in 1..Len(counts) : counts[j].count <= counts[i].count
             /\ \A j \in 1..(i - 1) : counts[j].count < counts[i].count
  IN  counts[i].month

keepMostCommonFiscalYearEndMonth(series) ==
  IF Len(series) = 0 THEN series
  ELSE LET bestMonth == bestMonthOf(monthCountsOf(series))
           keeps(p) == monthOf(p.end) = bestMonth
       IN  SelectSeq(series, keeps)

lastNYears(series, n) ==
  IF Len(series) <= n THEN series
  ELSE SubSeq(series, Len(series) - n + 1, Len(series))

\* the tag candidates the route passes
RevenueTags ==
  <<"Revenues", "SalesRevenueNet",
    "RevenueFromContractWithCustomerExcludingAssessedTax",
    "SalesRevenueGoodsNet", "SalesRevenueServicesNet">>

EpsTags == <<"EarningsPerShareDiluted", "EarningsPerShareBasic">>

OcfTags == <<"NetCashProvidedByUsedInOperatingActivities">>

\* new Date(iso + "T00:00:00Z").getTime() / (1000 * 60 * 60 * 24): the
\* number of the day of a calendar date, counted from 1970-01-01
epochDay(iso) ==
  LET y0 == iso \div 10000
      m == (iso \div 100) % 100
      d == iso % 100
      y == IF m <= 2 THEN y0 - 1 ELSE y0
      era == y \div 400
      yoe == y - era * 400
      mp == IF m > 2 THEN m - 3 ELSE m + 9
      doy == (153 * mp + 2) \div 5 + d - 1
      doe == yoe * 365 + yoe \div 4 - yoe \div 100 + doy
  IN  era * 146097 + doe - 719468

daysBetween(aISO, bISO) == Abs(epochDay(aISO) - epochDay(bISO))

\* Math.abs(Number(a.replaceAll("-", "")) - Number(b.replaceAll("-", "")))
numericDateDiff(aISO, bISO) == Abs(aISO - bISO)

\* the filter of the nearest-date lookups
isCandidate(x) == x.present /\ x.end > 0 /\ isFiniteNumber(x.val)

\* the candidates pushed for the tags, tag by tag, from the array filed
\* under the first unit key of unitKeys
RECURSIVE candidatesOf(_, _, _)
candidatesOf(fx, tags, unitKeys) ==
  IF tags = <<>> THEN <<>>
  ELSE LET node == unitsOf(fx, tags[Len(tags)])
           hits == { i \in 1..Len(node) : node[i].key \in unitKeys }
           unit == node[CHOOSE i \in hits : \A j \in hits : i <= j]
           here == IF hits = {} THEN <<>>
                   ELSE IF ~unit.isArray THEN <<>>
                   ELSE toYearPoints(SelectSeq(unit.items, isCandidate))
       IN  candidatesOf(fx, SubSeq(tags, 1, Len(tags) - 1), unitKeys) \o here

\* the index the loop `if (d < best) { best = d; ... }` ends with: the
\* first of the smallest distances
firstSmallest(dists) ==
  CHOOSE i \in 1..Len(dists) :
    /\ \A j \in 1..Len(dists) : dists[i] <= dists[j]
    /\ \A j \in 1..(i - 1) : dists[j] > dists[i]

DebtTags == <<"LongTermDebtNoncurrent", "LongTermDebt">>

pickDebtNearestToEndDate(fx, endDate) ==
  LET candidates == candidatesOf(fx, DebtTags, {"USD"})
      diffs == [i \in 1..Len(candidates) |-> numericDateDiff(candidates[i].end, endDate)]
  IN  IF Len(candidates) = 0 THEN Null
      ELSE candidates[firstSmallest(diffs)].val

pickNearestUSDValue(fx, tagCandidates, endDate, maxDays) ==
  LET candidates == candidatesOf(fx, tagCandidates, {"USD"})
      diffs == [i \in 1..Len(candidates) |-> numericDateDiff(candidates[i].end, endDate)]
  IN  IF Len(candidates) = 0 THEN Null
      ELSE IF diffs[firstSmallest(diffs)] > maxDays * 10 THEN Null
      ELSE candidates[firstSmallest(diffs)].val

ShareTags == <<"CommonStockSharesOutstanding", "EntityCommonStockSharesOutstanding">>

\* (k) => k.toLowerCase() === "shares"
unitIsShares == {"shares", "Shares", "SHARES"}

pickSharesNearestToEndDate(fx, endDate) ==
  LET candidates == candidatesOf(fx, ShareTags, unitIsShares)
      days == [i \in 1..Len(candidates) |-> daysBetween(candidates[i].end, endDate)]
  IN  IF Len(candidates) = 0 THEN Null
      ELSE IF days[firstSmallest(days)] > 180 THEN Null
      ELSE candidates[firstSmallest(days)].val

EquityTags ==
  <<"StockholdersEquity",
    "StockholdersEquityIncludingPortionAttributableToNoncontrollingInterest">>

CashTags ==
  <<"CashAndCashEquivalentsAtCarryingValue",
    "CashCashEquivalentsRestrictedCashAndRestrictedCashEquivalents">>

CapexTags == <<"PaymentsToAcquirePropertyPlantAndEquipment">>

OpIncomeTags == <<"OperatingIncomeLoss">>

PretaxTags ==
  <<"IncomeBeforeIncomeTaxes", "ProfitLoss",
    "IncomeLossFromContinuingOperationsBeforeIncomeTaxesExtraordinaryItemsNoncontrollingInterest">>

TaxTags == <<"IncomeTaxExpenseBenefit">>

\* String.prototype.toUpperCase on the strings of the model
toUpperCase(str) ==
  CASE str = "aapl" -> "AAPL"
    [] str = "Aapl" -> "AAPL"
    [] str = " aapl " -> " AAPL "
    [] str = "msft" -> "MSFT"
    [] OTHER -> str

\* String.prototype.trim on the strings of the model
trim(str) ==
  CASE str = " aapl " -> "aapl"
    [] str = " AAPL " -> "AAPL"
    [] OTHER -> str

\* the strings of the model that /^[A-Z.\-]{1,10}$/ matches
WellFormedTickers == {"AAPL", "MSFT", "BRK.B"}

\* (input ?? "").trim().toUpperCase(), thrown is the error it throws
cleanTicker(input) ==
  LET t == toUpperCase(trim(input))
  IN  IF t \notin WellFormedTickers
      THEN [thrown |-> TRUE, message |-> <<"Invalid ticker">>, ticker |-> t]
      ELSE [thrown |-> FALSE, message |-> <<>>, ticker |-> t]

\* Math.round of a finite number
MathRound(x) == Num((2 * x.n + x.d) \div (2 * x.d))

\* numParam: the parameter (NaN when it is absent or no number) or def
numParam(raw, def) == IF NumberIsFinite(raw) THEN raw ELSE def

\* the registry of the splits, ticker by ticker
SPLITS_BY_TICKER(ticker) ==
  IF ticker = "AAPL" THEN <<[effectiveDate |-> 20200831, ratio |-> 4]>> ELSE <<>>

RECURSIVE splitProduct(_, _)
splitProduct(splits, endDate) ==
  IF splits = <<>> THEN 1
  ELSE splitProduct(SubSeq(splits, 1, Len(splits) - 1), endDate)
       * (IF endDate < splits[Len(splits)].effectiveDate
          THEN splits[Len(splits)].ratio ELSE 1)

cumulativeSplitFactor_inclusive(ticker, endDate) ==
  splitProduct(SPLITS_BY_TICKER(ticker), endDate - 1)

cumulativeSplitFactor(ticker, endDate) == splitProduct(SPLITS_BY_TICKER(ticker), endDate)

\* toMap(series).get(end): the value set last for the key, Null for
\* undefined
mapGet(series, end) ==
  LET at == { i \in 1..Len(series) : series[i].end = end }
  IN  IF at = {} THEN Null
      ELSE series[CHOOSE i \in at : \A j \in at : j <= i].val

\* eps.map((e) => e.end)
endsOf(series) == [i \in 1..Len(series) |-> series[i].end]

fcfOf_capexOptional(ends, ocfSeries, capexSeries) ==
  [i \in 1..Len(ends) |->
     LET o == mapGet(ocfSeries, ends[i])
         c == mapGet(capexSeries, ends[i])
     IN  IF ~isFiniteNumber(o) THEN [end |-> ends[i], val |-> Null]
         ELSE IF ~isFiniteNumber(c) THEN [end |-> ends[i], val |-> o]
         ELSE [end |-> ends[i], val |-> NumSub(o, c)]]

\* free cash flow per period end: OCF - CapEx
fcfOf(ends, ocfSeries, capexSeries) ==
  [i \in 1..Len(ends) |->
     LET o == mapGet(ocfSeries, ends[i])
         c == mapGet(capexSeries, ends[i])
     IN  IF ~isFiniteNumber(o) \/ ~isFiniteNumber(c) THEN [end |-> ends[i], val |-> Null]
         ELSE [end |-> ends[i], val |-> NumSub(o, c)]]

\* equityMap.get(end) ?? pickNearestUSDValue(facts, [...], end, 200)
equityAt(fx, equitySeries, end) ==
  IF mapGet(equitySeries, end) # Null THEN mapGet(equitySeries, end)
  ELSE pickNearestUSDValue(fx, EquityTags, end, 200)

\* book value per share per period end: equity / shares nearest to it
bookValuePerShareOf(fx, ends, equitySeries) ==
  [i \in 1..Len(ends) |->
     LET eq == equityAt(fx, equitySeries, ends[i])
         sh == pickSharesNearestToEndDate(fx, ends[i])
     IN  IF ~isFiniteNumber(eq) \/ ~isFiniteNumber(sh) \/ NumLeq(sh, Num(0))
         THEN [end |-> ends[i], val |-> Null]
         ELSE [end |-> ends[i], val |-> NumDiv(eq, sh)]]

\* bookValuePerShareUSD.map(...): every finite value divided by the
\* cumulative split factor of its period end
splitAdjustedOf(ticker, bvps) ==
  [i \in 1..Len(bvps) |->
     IF ~NumberIsFinite(bvps[i].val) THEN bvps[i]
     ELSE [end |-> bvps[i].end,
           val |-> NumDiv(bvps[i].val, Num(cumulativeSplitFactor(ticker, bvps[i].end)))]]

\* cashMap.get(end) ?? pickNearestUSDValue(facts, [...], end, 200)
cashAt(fx, cashSeries, end) ==
  IF mapGet(cashSeries, end) # Null THEN mapGet(cashSeries, end)
  ELSE pickNearestUSDValue(fx, CashTags, end, 200)

roicOf_unclamped(fx, ends, opSeries, pretaxSeries, taxSeries, equitySeries, cashSeries) ==
  [i \in 1..Len(ends) |->
     LET op == mapGet(opSeries, ends[i])
         pt == mapGet(pretaxSeries, ends[i])
         tx == mapGet(taxSeries, ends[i])
         eq == equityAt(fx, equitySeries, ends[i])
         ca == cashAt(fx, cashSeries, ends[i])
         debt == pickDebtNearestToEndDate(fx, ends[i])
     IN  IF \E x \in {op, pt, tx, eq, ca, debt} : ~isFiniteNumber(x)
         THEN [end |-> ends[i], val |-> Null]
         ELSE IF pt = Num(0) THEN [end |-> ends[i], val |-> Null]
         ELSE LET nopat == NumMul(op, NumSub(Num(1), NumDiv(tx, pt)))
                  investedCapital == NumSub(NumAdd(eq, debt), ca)
              IN  IF ~NumberIsFinite(investedCapital) \/ NumLeq(investedCapital, Num(0))
                  THEN [end |-> ends[i], val |-> Null]
                  ELSE [end |-> ends[i], val |-> NumDiv(nopat, investedCapital)]]

\* ROIC per period end: NOPAT / invested capital, with
\* taxRate = Math.max(0, Math.min(1, tx / pt))
roicOf(fx, ends, opSeries, pretaxSeries, taxSeries, equitySeries, cashSeries) ==
  [i \in 1..Len(ends) |->
     LET op == mapGet(opSeries, ends[i])
         pt == mapGet(pretaxSeries, ends[i])
         tx == mapGet(taxSeries, ends[i])
         eq == equityAt(fx, equitySeries, ends[i])
         ca == cashAt(fx, cashSeries, ends[i])
         debt == pickDebtNearestToEndDate(fx, ends[i])
     IN  IF \E x \in {op, pt, tx, eq, ca, debt} : ~isFiniteNumber(x)
         THEN [end |-> ends[i], val |-> Null]
         ELSE IF pt = Num(0) THEN [end |-> ends[i], val |-> Null]
         ELSE LET taxRate == MathMax(Num(0), MathMin(Num(1), NumDiv(tx, pt)))
                  nopat == NumMul(op, NumSub(Num(1), taxRate))
                  investedCapital == NumSub(NumAdd(eq, debt), ca)
              IN  IF ~NumberIsFinite(investedCapital) \/ NumLeq(investedCapital, Num(0))
                  THEN [end |-> ends[i], val |-> Null]
                  ELSE [end |-> ends[i], val |-> NumDiv(nopat, investedCapital)]]

\* the binary search of closeOnOrBefore, from the state of its locals
RECURSIVE searchLoop(_, _, _, _, _)
searchLoop(history, isoDate, lo, hi, ans) ==
  IF lo > hi THEN ans
  ELSE LET mid == (lo + hi) \div 2
       IN  IF history[mid + 1].date <= isoDate
           THEN searchLoop(history, isoDate, mid + 1, hi, mid)
           ELSE searchLoop(history, isoDate, lo, mid - 1, ans)

closeOnOrBefore(history, isoDate) ==
  LET ans == searchLoop(history, isoDate, 0, Len(history) - 1, -1)
  IN  IF ans >= 0 THEN history[ans + 1].close ELSE Null

\* P/E per period end: close on or before it / EPS
peByYearOf(ends, epsSeries, history) ==
  [i \in 1..Len(ends) |->
     LET e == mapGet(epsSeries, ends[i])
         px == closeOnOrBefore(history, ends[i])
     IN  IF ~isFiniteNumber(e) \/ NumLeq(e, Num(0)) THEN [end |-> ends[i], val |-> Null]
         ELSE IF ~isFiniteNumber(px) THEN [end |-> ends[i], val |-> Null]
         ELSE [end |-> ends[i], val |-> NumDiv(px, e)]]

RECURSIVE sumOf(_)
sumOf(values) ==
  IF values = <<>> THEN Num(0)
  ELSE NumAdd(sumOf(SubSeq(values, 1, Len(values) - 1)), values[Len(values)])

\* out.sort((a, b) => a.date.localeCompare(b.date)), a stable sort
RECURSIVE InsertByDate(_, _)
InsertByDate(sorted, row) ==
  IF sorted = <<>> THEN <<row>>
  ELSE IF sorted[Len(sorted)].date <= row.date THEN Append(sorted, row)
  ELSE Append(InsertByDate(SubSeq(sorted, 1, Len(sorted) - 1), row), sorted[Len(sorted)])

RECURSIVE SortByDate(_)
SortByDate(rows) ==
  IF rows = <<>> THEN <<>>
  ELSE InsertByDate(SortByDate(SubSeq(rows, 1, Len(rows) - 1)), rows[Len(rows)])

\* a row of the CSV that is kept: a date of ten characters or more (0 in
\* the model when it is shorter) and a finite close
isDailyClose(row) == row.date > 0 /\ NumberIsFinite(row.close)

\* what fetchStooqDailyHistory makes of the CSV it received: nothing to
\* cache when the rows or the columns are missing, otherwise the rows kept,
\* sorted by date
parseStooqHistory(csv) ==
  IF ~csv.parsed THEN [cached |-> FALSE, out |-> <<>>]
  ELSE [cached |-> TRUE, out |-> SortByDate(SelectSeq(csv.rows, isDailyClose))]

stooqCacheKey_raw(ticker) == ticker

\* const key = ticker.toUpperCase()
stooqCacheKey(ticker) == toUpperCase(ticker)

averagePeOf_absentAsZero(peByYear) ==
  LET peValues == SelectSeq([i \in 1..Len(peByYear) |-> peByYear[i].val], isFiniteNumber)
  IN  IF Len(peValues) = 0 THEN Null
      ELSE NumDiv(sumOf(peValues), Num(Len(peByYear)))

\* the mean of the finite P/E values, null when there is none
averagePeOf(peByYear) ==
  LET peValues == SelectSeq([i \in 1..Len(peByYear) |-> peByYear[i].val], isFiniteNumber)
  IN  IF Len(peValues) = 0 THEN Null
      ELSE NumDiv(sumOf(peValues), Num(Len(peValues)))

\* the growthBasis parameter, bvps_5y when it is absent or unknown
growthBasisOf(raw) == IF raw \in GrowthBases THEN raw ELSE "bvps_5y"

(***************************************************************************)
(* The inputs the valuation engine is run on.                              *)
(***************************************************************************)
\* the i-th period end of a company filing on 31 December of every year
AnnualEnd(i) == (2009 + i) * 10000 + 1231

\* the i-th period end of a series with one point per month from 2020-01
MonthlyEnd(i) == (2020 + ((i - 1) \div 12)) * 10000 + (((i - 1) % 12) + 1) * 100 + 28

Calendars == {"annual", "monthly"}

EndOf(cal, i) == IF cal = "annual" THEN AnnualEnd(i) ELSE MonthlyEnd(i)

\* values of the successive periods, repeated cyclically
PatternPos == <<1, 2, 4, 1, 4, 2, 2>>

PatternMixed == <<2, -1, 0, 4, 1, -2, 4>>

Patterns == {PatternPos, PatternMixed}

ValAt(pat, i) == Num(pat[((i - 1) % Len(pat)) + 1])

\* which periods carry no usable value
Holes == {"none", "latest", "third", "all"}

HoleAt(hole, i, n) ==
  CASE hole = "none"   -> FALSE
    [] hole = "latest" -> i = n
    [] hole = "third"  -> i % 3 = 2
    [] hole = "all"    -> TRUE

\* the order in which the points are listed
Orders == {"asc", "desc", "rotated"}

PeriodAt(order, j, n) ==
  CASE order = "asc"     -> j
    [] order = "desc"    -> n + 1 - j
    [] order = "rotated" -> ((j + (n \div 2) - 1) % n) + 1

PointOf(cal, pat, hole, i, n) ==
  [end |-> EndOf(cal, i),
   val |-> IF HoleAt(hole, i, n)
           THEN (IF i % 2 = 0 THEN NaN ELSE Null)
           ELSE ValAt(pat, i)]

\* a series of n points with distinct period ends
MkSeries(n, cal, pat, hole, order) ==
  [j \in 1..n |-> PointOf(cal, pat, hole, PeriodAt(order, j, n), n)]

RichSeries ==
  { MkSeries(n, c, p, h, o) :
      n \in 0..MaxPoints, c \in Calendars, p \in Patterns, h \in Holes, o \in Orders }

ShortSeries == MkSeries(2, "annual", PatternPos, "none", "asc")

PlainEps ==
  { MkSeries(10, "annual", PatternPos, "none", "asc"),
    MkSeries(1, "monthly", PatternMixed, "none", "asc") }

MkInputs(e, b, f, pe, px) ==
  [eps |-> e, bookValuePerShareUSD |-> b, freeCashFlowUSD |-> f,
   historicPeRatio |-> pe, latestPriceUSD |-> px]

\* one rich series in the place of EPS, of book value or of free cash flow
SeriesRichInputs ==
  { MkInputs(r, ShortSeries, <<>>, Num(2), Null) : r \in RichSeries }
  \cup { MkInputs(e, r, ShortSeries, Num(2), Null) : e \in PlainEps, r \in RichSeries }
  \cup { MkInputs(e, ShortSeries, r, Num(2), Null) : e \in PlainEps, r \in RichSeries }

HistoricPeRatios == {Null, NaN, Inf(1), Num(0), Num(-1), Num(2)}

\* a few series, with every historic P/E
KnobRichInputs ==
  { MkInputs(t[1], t[2], t[3], pe, Num(5)) :
      t \in { <<MkSeries(10, "annual", PatternPos, "none", "desc"),
                MkSeries(6, "monthly", PatternPos, "none", "asc"),
                MkSeries(7, "annual", PatternMixed, "third", "rotated")>>,
              <<MkSeries(MaxPoints, "annual", PatternMixed, "latest", "rotated"),
                MkSeries(10, "monthly", PatternPos, "none", "desc"),
                MkSeries(3, "annual", PatternPos, "none", "asc")>>,
              <<MkSeries(6, "annual", PatternMixed, "none", "asc"),
                MkSeries(8, "annual", PatternPos, "latest", "asc"),
                MkSeries(6, "monthly", PatternPos, "none", "desc")>>,
              <<MkSeries(4, "annual", PatternPos, "all", "asc"),
                MkSeries(6, "annual", PatternPos, "none", "asc"),
                MkSeries(2, "annual", PatternPos, "none", "asc")>> },
      pe \in HistoricPeRatios }

\* growth and return rates (decimals)
Rates == {Fin(-1, 1), Fin(-1, 2), Num(0), Fin(1, 4), Fin(1, 2)}

MarginsOfSafety == {Num(-20), Num(0), Num(40), Num(100), Num(150)}

MkKnobs(y, ag, dr, mos, gb) ==
  [years |-> y, analystGrowth |-> ag, desiredReturn |-> dr,
   marginOfSafetyPercent |-> mos, growthBasis |-> gb]

(***************************************************************************)
(* The company facts the route is run on.                                  *)
(***************************************************************************)
FiscalCalendars == {"december", "shifted", "split"}

\* the period end of the i-th fiscal year of n: always 31 December, or 30
\* September for the first third of the history, or 30 June in odd years
FiscalEnd(cal, i, n) ==
  CASE cal = "december" -> (2009 + i) * 10000 + 1231
    [] cal = "shifted"  -> IF i <= n \div 3 THEN (2009 + i) * 10000 + 930
                           ELSE (2009 + i) * 10000 + 1231
    [] cal = "split"    -> IF i % 2 = 1 THEN (2009 + i) * 10000 + 630
                           ELSE (2009 + i) * 10000 + 1231

RawFact(end, val, form, fp, frame) ==
  [present |-> TRUE, end |-> end, val |-> val, form |-> form, fp |-> fp, frame |-> frame]

NullFact ==
  [present |-> FALSE, end |-> 0, val |-> Null, form |-> "", fp |-> "", frame |-> ""]

\* a second filing for the same period end
Duplicates == {"none", "larger", "smaller"}

\* the facts filed for the i-th fiscal year
PeriodFacts(cal, dup, noisy, i, n) ==
  LET end == FiscalEnd(cal, i, n)
      v == PatternMixed[((i - 1) % Len(PatternMixed)) + 1]
      main == <<RawFact(end, Num(100 * v), "10-K", "FY",
                        IF i % 2 = 0 THEN "CY2020" ELSE "")>>
      again == CASE dup = "none"    -> <<>>
                 [] dup = "larger"  -> IF i % 2 = 1
                                       THEN <<RawFact(end, Num(-150 * v - 50), "10-K", "FY", "")>>
                                       ELSE <<>>
                 [] dup = "smaller" -> <<RawFact(end, Num(10 * v), "10-K", "FY", "")>>
      noise == IF ~noisy THEN <<>>
               ELSE CASE i % 4 = 0 -> <<RawFact(end, Num(9999), "10-K", "FY", "CY2020Q4")>>
                      [] i % 4 = 1 -> <<RawFact((2009 + i) * 10000 + 331, Num(7), "10-Q", "Q1", "")>>
                      [] i % 4 = 2 -> <<RawFact(end, NaN, "10-K", "FY", ""), NullFact>>
                      [] i % 4 = 3 -> <<RawFact(0, Num(5), "10-K", "FY", ""),
                                        RawFact((2009 + i) * 10000 + 731, Num(8), "10-K", "Q2", "")>>
  IN  noise \o main \o again

RECURSIVE FactsUpTo(_, _, _, _, _)
FactsUpTo(cal, dup, noisy, i, n) ==
  IF i = 0 THEN <<>>
  ELSE FactsUpTo(cal, dup, noisy, i - 1, n) \o PeriodFacts(cal, dup, noisy, i, n)

\* the array filed under one unit, listed in the given order
MkFacts(n, cal, dup, noisy, order) ==
  LET asc == FactsUpTo(cal, dup, noisy, n, n)
  IN  [j \in 1..Len(asc) |-> asc[PeriodAt(order, j, Len(asc))]]

FactArrays ==
  { MkFacts(n, c, d, z, o) :
      n \in 0..MaxPeriods, c \in FiscalCalendars, d \in Duplicates,
      z \in BOOLEAN, o \in Orders }

\* the arrays filed under a second tag or unit
OtherArrays ==
  { <<>>,
    MkFacts(3, "december", "none", FALSE, "desc"),
    <<RawFact(20151231, Num(1), "10-Q", "FY", ""), NullFact,
      RawFact(20161231, Num(2), "10-K", "FY", "CY2019Q1I")>>,
    <<RawFact(20111231, Num(-150), "10-K", "FY", ""),
      RawFact(20200630, Num(30), "10-K", "FY", ""),
      RawFact(20111231, Num(150), "10-K", "FY", "")>> }

Unit(key, items) == [key |-> key, isArray |-> TRUE, items |-> items]

NotAnArray(key) == [key |-> key, isArray |-> FALSE, items |-> <<>>]

Node(units) == [hasUnits |-> TRUE, units |-> units]

NoUnits == [hasUnits |-> FALSE, units |-> <<>>]

\* how the two arrays are filed under the tags the route reads
FactsPlain(a, b) ==
  [usGaap |->
     ("Revenues" :> Node(<<Unit("USD", a)>>)) @@
     ("SalesRevenueNet" :> Node(<<Unit("USD", b)>>)) @@
     ("EarningsPerShareDiluted" :> Node(<<Unit("USD/shares", a)>>)) @@
     ("EarningsPerShareBasic" :> Node(<<Unit("USD/shares", b)>>)) @@
     ("NetCashProvidedByUsedInOperatingActivities" :> Node(<<Unit("USD", a)>>))]

FactsFallback(a, b) ==
  [usGaap |->
     ("SalesRevenueNet" :> Node(<<Unit("USD", b)>>)) @@
     ("SalesRevenueGoodsNet" :> Node(<<Unit("EUR", b), Unit("USD", a)>>)) @@
     ("EarningsPerShareDiluted" :> Node(<<Unit("pure", a)>>)) @@
     ("EarningsPerShareBasic" :> Node(<<Unit("USD", b), Unit("usd/Shares", a)>>)) @@
     ("NetCashProvidedByUsedInOperatingActivities" :> NoUnits)]

FactsMalformed(a, b) ==
  [usGaap |->
     ("Revenues" :> Node(<<NotAnArray("USD")>>)) @@
     ("RevenueFromContractWithCustomerExcludingAssessedTax" :> Node(<<Unit("USD", a)>>)) @@
     ("SalesRevenueServicesNet" :> Node(<<Unit("USD", b)>>)) @@
     ("EarningsPerShareDiluted" :> Node(<<Unit("USD/shares", b)>>)) @@
     ("EarningsPerShareBasic" :> Node(<<Unit("USD/shares", a)>>)) @@
     ("NetCashProvidedByUsedInOperatingActivities" :> Node(<<Unit("EUR", b), Unit("USD", a)>>))]

\* a tag that files two units the EPS predicate accepts
FactsTwoUnits(a, b) ==
  [usGaap |->
     ("Revenues" :> Node(<<Unit("EUR", a), Unit("USD", b)>>)) @@
     ("SalesRevenueGoodsNet" :> Node(<<Unit("USD", a)>>)) @@
     ("EarningsPerShareDiluted" :> Node(<<Unit("USD/shares", b), Unit("USD/SHARES", a)>>)) @@
     ("EarningsPerShareBasic" :> Node(<<Unit("USD/shares", MkFacts(2, "december", "none", FALSE, "asc"))>>)) @@
     ("NetCashProvidedByUsedInOperatingActivities" :> Node(<<NotAnArray("USD")>>))]

CompanyFacts ==
  { FactsPlain(a, b) : a \in FactArrays, b \in OtherArrays }
  \cup { FactsTwoUnits(a, b) : a \in FactArrays, b \in OtherArrays }
  \cup { FactsFallback(a, b) : a \in FactArrays, b \in OtherArrays }
  \cup { FactsMalformed(a, b) : a \in FactArrays, b \in OtherArrays }

NoFacts == [usGaap |-> <<>>]

\* the snapshot facts a company may have filed: their dates lie around the
\* period ends of TargetEnds; the last three are not candidates
SnapPool ==
  << [end |-> 20200101, val |-> Num(1)],
     [end |-> 20200610, val |-> Num(2)],
     [end |-> 20200620, val |-> Num(3)],
     [end |-> 20200703, val |-> Num(4)],
     [end |-> 20200704, val |-> Num(5)],
     [end |-> 20201201, val |-> Num(6)],
     [end |-> 20210130, val |-> Num(7)],
     [end |-> 20210301, val |-> Num(8)],
     [end |-> 20201231, val |-> NaN],
     [end |-> 0, val |-> Num(9)],
     [end |-> -1, val |-> Null] >>

\* the k-th snapshot fact, its value marked with the tag it is filed under
SnapFact(k, mark) ==
  IF SnapPool[k].end < 0 THEN NullFact
  ELSE RawFact(SnapPool[k].end,
               IF SnapPool[k].val.k = "fin" THEN Num(mark + SnapPool[k].val.n)
               ELSE SnapPool[k].val,
               "10-Q", "Q2", "")

SnapArray(ks, mark) == [i \in 1..Len(ks) |-> SnapFact(ks[i], mark)]

\* the arrays filed under the first and under the second tag of a lookup
FirstTagPicks == UNION { [1..n -> 1..Len(SnapPool)] : n \in 0..MaxCandidates }

SecondTagPicks == UNION { [1..n -> 1..Len(SnapPool)] : n \in 0..1 }

\* every lookup finds its two tags filed in the unit it reads
SnapshotsPlain(a, b) ==
  [usGaap |->
     (ShareTags[1] :> Node(<<Unit("shares", SnapArray(a, 100))>>)) @@
     (ShareTags[2] :> Node(<<Unit("shares", SnapArray(b, 200))>>)) @@
     (EquityTags[1] :> Node(<<Unit("USD", SnapArray(a, 100))>>)) @@
     (EquityTags[2] :> Node(<<Unit("USD", SnapArray(b, 200))>>)) @@
     (CashTags[1] :> Node(<<Unit("USD", SnapArray(a, 100))>>)) @@
     (CashTags[2] :> Node(<<Unit("USD", SnapArray(b, 200))>>)) @@
     (DebtTags[1] :> Node(<<Unit("USD", SnapArray(a, 100))>>)) @@
     (DebtTags[2] :> Node(<<Unit("USD", SnapArray(b, 200))>>))]

\* other units, other spellings, values that are no arrays, missing tags
SnapshotsOdd(a, b) ==
  [usGaap |->
     (ShareTags[1] :> Node(<<Unit("USD", SnapArray(b, 300)),
                             Unit("Shares", SnapArray(b, 200)),
                             Unit("shares", SnapArray(a, 400))>>)) @@
     (ShareTags[2] :> Node(<<Unit("SHARES", SnapArray(a, 100))>>)) @@
     (EquityTags[1] :> Node(<<NotAnArray("USD")>>)) @@
     (EquityTags[2] :> Node(<<Unit("EUR", SnapArray(b, 300)), Unit("USD", SnapArray(a, 100))>>)) @@
     (CashTags[1] :> NoUnits) @@
     (CashTags[2] :> Node(<<Unit("USD", SnapArray(a, 100))>>)) @@
     (DebtTags[2] :> Node(<<Unit("USD", SnapArray(a, 100))>>))]

SnapshotFacts ==
  { SnapshotsPlain(a, b) : a \in FirstTagPicks, b \in SecondTagPicks }
  \cup { SnapshotsOdd(a, b) : a \in FirstTagPicks, b \in SecondTagPicks }

\* the trading days of a price history and the dates closes are asked for
TradingDays == <<20200102, 20200103, 20200106, 20201231>>

QueryDates == {20191231, 20200102, 20200104, 20200106, 20200630, 20201231, 20210104}

\* the histories fetchStooqDailyHistory returns: sorted ascending by date
\* (a date may occur twice), every entry with a close of its own
SortedDayPicks ==
  UNION { { ks \in [1..n -> 1..Len(TradingDays)] :
              \A i \in 1..n : \A j \in 1..n : (i < j) => (ks[i] <= ks[j]) }
          : n \in 0..MaxHistory }

DailyHistory(ks) == [i \in 1..Len(ks) |-> [date |-> TradingDays[ks[i]], close |-> Num(10 * i)]]

Histories == { DailyHistory(ks) : ks \in SortedDayPicks }

\* the facts of a company whose fiscal years end on 31 August, the day of
\* the year on which the registered split took effect in 2020, the first in
\* 2015: n years of EPS, operating cash flow and capital
\* expenditure (no expenditure filed for the second year, that of the fourth
\* dated three days early and the cash flow of the fifth a day early), equity
\* filed in the annual
\* report, only in interim reports five days earlier, or not at all, and
\* share counts dated fifty days after each year end, four times as many
\* from the split of 2020-08-31 on; EPS negative in the first year and zero
\* in the fourth; operating income (none for the sixth year), pretax income
\* (zero in the third year), tax expense (above the pretax income in the
\* second year, negative in the fourth), cash (in the fifth year only in an
\* interim report ten days early, in the seventh equal to equity plus debt)
\* and long-term debt filed for every year, for the first year only, or not
\* at all
FiscalYearEnd(i) == (2014 + i) * 10000 + 831

EquityFilings == {"annual", "interim", "none"}

ShareFilings == {"near", "zero", "none"}

DebtFilings == {"each", "first", "none"}

RECURSIVE FilingsUpTo(_, _)
FilingsUpTo(i, kind) ==
  IF i = 0 THEN <<>>
  ELSE FilingsUpTo(i - 1, kind) \o
       CASE kind = "eps"     -> <<RawFact(FiscalYearEnd(i), Num(IF i = 1 THEN -1 ELSE IF i = 4 THEN 0 ELSE i),
                                          "10-K", "FY", "")>>
         [] kind = "ocf"     -> <<RawFact(IF i = 5 THEN FiscalYearEnd(i) - 1 ELSE FiscalYearEnd(i),
                                          Num(50 * i), "10-K", "FY", "")>>
         [] kind = "capex"   -> IF i = 2 THEN <<>>
                                ELSE <<RawFact(IF i = 4 THEN FiscalYearEnd(i) - 3 ELSE FiscalYearEnd(i),
                                               Num(10 * i), "10-K", "FY", "")>>
         [] kind = "annual"  -> <<RawFact(FiscalYearEnd(i), Num(40 * (i + 1)), "10-K", "FY", "")>>
         [] kind = "interim" -> <<RawFact(FiscalYearEnd(i) - 5, Num(40 * (i + 1)), "10-Q", "Q4", "")>>
         [] kind = "near"    -> <<RawFact((2014 + i) * 10000 + 1020,
                                          IF FiscalYearEnd(i) < 20200831 THEN Num(10) ELSE Num(40),
                                          "10-K", "FY", "")>>
         [] kind = "zero"    -> <<RawFact((2014 + i) * 10000 + 1020, Num(0), "10-K", "FY", "")>>
         [] kind = "op"      -> IF i = 6 THEN <<>>
                                ELSE <<RawFact(FiscalYearEnd(i), Num(100 * i), "10-K", "FY", "")>>
         [] kind = "pretax"  -> <<RawFact(FiscalYearEnd(i), Num(IF i = 3 THEN 0 ELSE 20), "10-K", "FY", "")>>
         [] kind = "tax"     -> <<RawFact(FiscalYearEnd(i), Num(IF i = 2 THEN 30 ELSE IF i = 4 THEN -5 ELSE 5),
                                          "10-K", "FY", "")>>
         [] kind = "cash"    -> IF i = 5
                                THEN <<RawFact(FiscalYearEnd(i) - 10, Num(10), "10-Q", "Q4", "")>>
                                ELSE <<RawFact(FiscalYearEnd(i), Num(IF i = 7 THEN 347 ELSE 10),
                                               "10-K", "FY", "")>>
         [] kind = "each"    -> <<RawFact(FiscalYearEnd(i), Num(20 + i), "10-K", "FY", "")>>
         [] kind = "first"   -> IF i = 1 THEN <<RawFact(FiscalYearEnd(i), Num(21), "10-K", "FY", "")>>
                                ELSE <<>>
         [] OTHER            -> <<>>

FiledFacts(n, equityFiling, shareFiling, debtFiling) ==
  [usGaap |->
     (EpsTags[1] :> Node(<<Unit("USD/shares", FilingsUpTo(n, "eps"))>>)) @@
     (OcfTags[1] :> Node(<<Unit("USD", FilingsUpTo(n, "ocf"))>>)) @@
     (CapexTags[1] :> Node(<<Unit("USD", FilingsUpTo(n, "capex"))>>)) @@
     (EquityTags[1] :> Node(<<Unit("USD", FilingsUpTo(n, equityFiling))>>)) @@
     (ShareTags[1] :> Node(<<Unit("shares", FilingsUpTo(n, shareFiling))>>)) @@
     (OpIncomeTags[1] :> Node(<<Unit("USD", FilingsUpTo(n, "op"))>>)) @@
     (PretaxTags[1] :> Node(<<Unit("USD", FilingsUpTo(n, "pretax"))>>)) @@
     (TaxTags[1] :> Node(<<Unit("USD", FilingsUpTo(n, "tax"))>>)) @@
     (CashTags[1] :> Node(<<Unit("USD", FilingsUpTo(n, "cash"))>>)) @@
     (DebtTags[1] :> Node(<<Unit("USD", FilingsUpTo(n, debtFiling))>>))]

FiledYears == {0, 3, 7}

\* what the remote services answer: an error (a response that is not ok,
\* or a rejected fetch), or a body
FailedReplies(what) ==
  { [ok |-> FALSE, message |-> <<what, " failed: status=503">>],
    [ok |-> FALSE, message |-> <<"fetch failed">>] }

OkReply(body) == [ok |-> TRUE, body |-> body]

\* the latest close: parseStooqClose gives a number or null
PriceReplies == FailedReplies("Stooq latest") \cup { OkReply(Null), OkReply(Num(30)) }

\* the ticker map of the SEC, with and without the companies of the model
TickerMaps == { ("AAPL" :> "0000320193") @@ ("MSFT" :> "0000789019"),
                ("MSFT" :> "0000789019") }

TickerMapReplies == FailedReplies("SEC ticker map") \cup { OkReply(m) : m \in TickerMaps }

FactsReplies ==
  FailedReplies("SEC companyfacts")
  \cup { OkReply(FiledFacts(n, e, sh, "each")) :
            n \in FiledYears, e \in EquityFilings, sh \in ShareFilings }
  \cup { OkReply(FiledFacts(n, "annual", "near", d)) : n \in FiledYears, d \in DebtFilings }

\* the daily closes the price service holds: one a day before every fiscal
\* year end from the year `from` on, ten times the square of the year
RECURSIVE ClosesUpTo(_, _)
ClosesUpTo(i, from) ==
  IF i = 0 THEN <<>>
  ELSE ClosesUpTo(i - 1, from) \o
       (IF i < from THEN <<>> ELSE <<[date |-> FiscalYearEnd(i) - 1, close |-> Num(10 * i * i)]>>)

\* a CSV without rows or without the Date and Close columns
MalformedCsv == [parsed |-> FALSE, rows |-> <<>>]

Csv(rows) == [parsed |-> TRUE, rows |-> rows]

HistoryReplies ==
  FailedReplies("Stooq history")
  \cup { OkReply(MalformedCsv), OkReply(Csv(<<>>)),
         OkReply(Csv(ClosesUpTo(7, 1))), OkReply(Csv(ClosesUpTo(7, 4))),
         OkReply(Csv(<<ClosesUpTo(7, 6)[2], ClosesUpTo(7, 6)[1]>>)) }

\* the tickers fetchStooqDailyHistory is called with
CallTickers == {"AAPL", "aapl", "MSFT"}

\* the rows the price service holds for a symbol, on two days: a row
\* without a close and rows out of order, then one more row
RowsOf(symbol, day) ==
  LET c == IF symbol = "AAPL" THEN 20 ELSE 7
      first == <<[date |-> 20200103, close |-> Num(2 * c)],
                 [date |-> 20200106, close |-> NaN],
                 [date |-> 20200102, close |-> Num(c)]>>
  IN  IF day = 1 THEN first
      ELSE first \o <<[date |-> 20200107, close |-> Num(3 * c)]>>

\* what the price service answers when asked for the history of a ticker
HistoryRepliesFor(ticker) ==
  { [ok |-> FALSE, message |-> <<"Stooq history failed: status=503">>],
    OkReply(MalformedCsv),
    OkReply(Csv(RowsOf(toUpperCase(ticker), 1))),
    OkReply(Csv(RowsOf(toUpperCase(ticker), 2))) }

\* the query parameters of the requests
TickerParams == {"AAPL", " aapl ", "MSFT", "A1"}

YearsParams == {Num(0), Fin(5, 2)}

GrowthBasisParams == {"bvps_5y", "eps_5y", "fcf_10y", "book"}

\* the period ends the lookups are made for
TargetEnds == {20200615, 20201231, 20210105}

NotRun == [kind |-> "none"]

\* the engine has not been called
IdleRule1 ==
  /\ inputs = MkInputs(<<>>, <<>>, <<>>, Null, Null)
  /\ knobs = MkKnobs(10, Fin(1, 10), Fin(1, 5), Num(40), "bvps_5y")
  /\ result = NotRun

\* no facts have been fetched
IdleSeries ==
  /\ facts = NoFacts
  /\ revenueRaw = <<>>
  /\ revenue = <<>>
  /\ epsRaw = <<>>
  /\ eps = <<>>
  /\ ocf = <<>>
  /\ phase = "idle"

InitSeriesRich ==
  /\ inputs \in SeriesRichInputs
  /\ knobs \in { MkKnobs(2, Fin(1, 4), Fin(1, 2), Num(40), gb) : gb \in GrowthBases }
  /\ result = NotRun

InitKnobRich ==
  /\ inputs \in KnobRichInputs
  /\ knobs \in { MkKnobs(y, ag, dr, mos, gb) :
                   y \in 1..MaxYears, ag \in Rates, dr \in Rates,
                   mos \in MarginsOfSafety, gb \in GrowthBases }
  /\ result = NotRun

\* no nearest-date lookup has been made
NoCalls == <<>>

\* let tickerToCikCache = null
NoTickerMap == [loaded |-> FALSE, map |-> <<>>]

LoadedTickerMap(m) == [loaded |-> TRUE, map |-> m]

\* no request has been made and the caches are empty
IdleHttp ==
  /\ request = NotRun
  /\ response = NotRun
  /\ tickerToCikCache = NoTickerMap
  /\ stooqHistoryCache = <<>>
  /\ calls = NoCalls

IdleLookups ==
  /\ nearest = NotRun
  /\ search = NotRun
  /\ IdleHttp

InitRule1 == (InitSeriesRich \/ InitKnobRich) /\ IdleSeries /\ IdleLookups

InitSeries ==
  /\ IdleRule1
  /\ facts \in CompanyFacts
  /\ revenueRaw = <<>>
  /\ revenue = <<>>
  /\ epsRaw = <<>>
  /\ eps = <<>>
  /\ ocf = <<>>
  /\ phase = "fetched"
  /\ IdleLookups

InitNearest ==
  /\ IdleRule1
  /\ facts \in SnapshotFacts
  /\ revenueRaw = <<>>
  /\ revenue = <<>>
  /\ epsRaw = <<>>
  /\ eps = <<>>
  /\ ocf = <<>>
  /\ phase = "fetched"
  /\ nearest = NotRun
  /\ search = NotRun
  /\ IdleHttp

(***************************************************************************)
(* Operations.                                                             *)
(***************************************************************************)
\* the route hands the series and the knobs to the engine
Calculate ==
  /\ result = NotRun
  /\ result' = calculateRule1(inputs, knobs)
  /\ UNCHANGED <<inputs, knobs>>
  /\ UNCHANGED seriesVars
  /\ UNCHANGED lookupVars

\* the user changes the horizon and the valuation is computed again
ChangeYears(y) ==
  /\ result # NotRun
  /\ y # knobs.years
  /\ knobs' = [knobs EXCEPT !.years = y]
  /\ result' = calculateRule1(inputs, knobs')
  /\ UNCHANGED inputs
  /\ UNCHANGED seriesVars
  /\ UNCHANGED lookupVars

NextRule1 ==
  \/ Calculate
  \/ \E y \in 1..MaxYears : ChangeYears(y)

SpecRule1 == InitRule1 /\ [][NextRule1]_vars

\* the route normalizes the annual series from the fetched facts
NormalizeSeries ==
  /\ phase = "fetched"
  /\ revenueRaw' = mergeAnnualUSDSeries(facts, RevenueTags)
  /\ revenue' = lastNYears(keepMostCommonFiscalYearEndMonth(revenueRaw'), 10)
  /\ epsRaw' = pickAnnualEPSSeries(facts, EpsTags)
  /\ eps' = lastNYears(keepMostCommonFiscalYearEndMonth(epsRaw'), 10)
  /\ ocf' = lastNYears(pickAnnualUSDSeries(facts, OcfTags), 10)
  /\ phase' = "normalized"
  /\ UNCHANGED facts
  /\ UNCHANGED rule1Vars
  /\ UNCHANGED lookupVars

NextSeries == NormalizeSeries

SpecSeries == InitSeries /\ [][NextSeries]_vars

\* the route looks up, for one period end, the share count, the equity,
\* the cash and the long-term debt filed nearest to it
LookupNearest(end) ==
  /\ phase = "fetched"
  /\ IF nearest = NotRun THEN TRUE ELSE nearest.end # end
  /\ nearest' = [kind |-> "looked", end |-> end,
                 shares |-> pickSharesNearestToEndDate(facts, end),
                 equity |-> pickNearestUSDValue(facts, EquityTags, end, 200),
                 cash |-> pickNearestUSDValue(facts, CashTags, end, 200),
                 debt |-> pickDebtNearestToEndDate(facts, end)]
  /\ UNCHANGED rule1Vars
  /\ UNCHANGED seriesVars
  /\ UNCHANGED search
  /\ UNCHANGED httpVars

NextNearest == \E end \in TargetEnds : LookupNearest(end)

SpecNearest == InitNearest /\ [][NextNearest]_vars

\* a request as GET finds it: its query parameters, and the constants of
\* the handler not yet assigned
NewRequest(t, y, g) ==
  [pc |-> "start", tickerParam |-> t, yearsParam |-> y, growthBasisParam |-> g,
   ticker |-> "", years |-> 0, price |-> Null, cik10 |-> "", fetched |-> <<>>,
   capex |-> <<>>, equity |-> <<>>, fcf |-> <<>>,
   opIncome |-> <<>>, pretax |-> <<>>, taxes |-> <<>>, cash |-> <<>>, roic |-> <<>>,
   bookValuePerShareUSD |-> <<>>, bookValuePerShareUSD_splitAdjusted |-> <<>>,
   history |-> <<>>, peByYear |-> <<>>, averagePe10y |-> Null]

\* a request arrives at a process that may have served requests before
InitGet ==
  /\ IdleRule1
  /\ IdleSeries
  /\ nearest = NotRun
  /\ search = NotRun
  /\ request \in { NewRequest(t, y, g) :
                     t \in TickerParams, y \in YearsParams, g \in GrowthBasisParams }
  /\ response = NotRun
  /\ tickerToCikCache \in { NoTickerMap } \cup { LoadedTickerMap(m) : m \in TickerMaps }
  /\ stooqHistoryCache \in { <<>>, "AAPL" :> ClosesUpTo(7, 1) }
  /\ calls = NoCalls

\* the record of a retrieval the request has made: which one, and the error
\* it ended with, if any
Fetched(what, reply) ==
  [what |-> what, ok |-> reply.ok,
   message |-> IF reply.ok THEN <<>> ELSE reply.message]

Catch_ok(message, fetched) ==
  /\ response' = [status |-> 200, body |-> [error |-> message]]
  /\ request' = [request EXCEPT !.pc = "done", !.fetched = fetched]

\* catch (err): the error is answered with status 400 and its message
Catch(message, fetched) ==
  /\ response' = [status |-> 400, body |-> [error |-> message]]
  /\ request' = [request EXCEPT !.pc = "done", !.fetched = fetched]

\* GET reads the ticker and the horizon and asks for the latest price
GetStart ==
  /\ request # NotRun
  /\ request.pc = "start"
  /\ LET c == cleanTicker(request.tickerParam)
         years == MathMax(Num(1), MathRound(numParam(request.yearsParam, Num(10))))
     IN  IF c.thrown THEN Catch(c.message, request.fetched)
         ELSE /\ request' = [request EXCEPT !.pc = "price", !.ticker = c.ticker,
                                            !.years = years.n]
              /\ UNCHANGED response
  /\ UNCHANGED <<rule1Vars, seriesVars, nearest, search>>
  /\ UNCHANGED <<tickerToCikCache, stooqHistoryCache, calls>>

\* fetchStooqLatestCloseUSD settles
PriceReplied(reply) ==
  /\ request # NotRun
  /\ request.pc = "price"
  /\ LET fetched == Append(request.fetched, Fetched("price", reply))
     IN  IF ~reply.ok THEN Catch(reply.message, fetched)
         ELSE /\ request' = [request EXCEPT !.pc = "cik", !.price = reply.body,
                                            !.fetched = fetched]
              /\ UNCHANGED response
  /\ UNCHANGED <<rule1Vars, seriesVars, nearest, search>>
  /\ UNCHANGED <<tickerToCikCache, stooqHistoryCache, calls>>

\* getCikForTicker with the map `map`: the CIK of the ticker, or an error
CikLookedUp(map, fetched) ==
  LET key == toUpperCase(request.ticker)
  IN  IF key \notin DOMAIN map
      THEN Catch(<<"No SEC CIK found for ticker ", request.ticker>>, fetched)
      ELSE /\ request' = [request EXCEPT !.pc = "facts", !.cik10 = map[key],
                                         !.fetched = fetched]
           /\ UNCHANGED response

\* getTickerToCikMap finds the map cached
TickerMapCached ==
  /\ request # NotRun
  /\ request.pc = "cik"
  /\ tickerToCikCache.loaded
  /\ CikLookedUp(tickerToCikCache.map, request.fetched)
  /\ UNCHANGED <<rule1Vars, seriesVars, nearest, search>>
  /\ UNCHANGED <<tickerToCikCache, stooqHistoryCache, calls>>

\* getTickerToCikMap fetches the map
TickerMapReplied(reply) ==
  /\ request # NotRun
  /\ request.pc = "cik"
  /\ ~tickerToCikCache.loaded
  /\ LET fetched == Append(request.fetched, Fetched("tickerMap", reply))
     IN  IF ~reply.ok
         THEN Catch(reply.message, fetched) /\ UNCHANGED tickerToCikCache
         ELSE /\ tickerToCikCache' = LoadedTickerMap(reply.body)
              /\ CikLookedUp(reply.body, fetched)
  /\ UNCHANGED <<rule1Vars, seriesVars, nearest, search>>
  /\ UNCHANGED <<stooqHistoryCache, calls>>

\* fetchCompanyFacts settles; the series and the metrics per period end are
\* computed and the price history is asked for
FactsReplied(reply) ==
  /\ request # NotRun
  /\ request.pc = "facts"
  /\ LET fetched == Append(request.fetched, Fetched("facts", reply))
     IN  IF ~reply.ok
         THEN /\ Catch(reply.message, fetched)
              /\ UNCHANGED seriesVars
         ELSE LET fx == reply.body
                  revenueSeries == mergeAnnualUSDSeries(fx, RevenueTags)
                  epsSeries == pickAnnualEPSSeries(fx, EpsTags)
                  epsKept == lastNYears(keepMostCommonFiscalYearEndMonth(epsSeries), 10)
                  ocfKept == lastNYears(pickAnnualUSDSeries(fx, OcfTags), 10)
                  capex == lastNYears(pickAnnualUSDSeries(fx, CapexTags), 10)
                  equity == lastNYears(pickAnnualUSDSeries(fx, EquityTags), 10)
                  opIncome == lastNYears(pickAnnualUSDSeries(fx, OpIncomeTags), 10)
                  pretax == lastNYears(pickAnnualUSDSeries(fx, PretaxTags), 10)
                  taxes == lastNYears(pickAnnualUSDSeries(fx, TaxTags), 10)
                  cash == lastNYears(pickAnnualUSDSeries(fx, CashTags), 10)
                  ends == endsOf(epsKept)
                  bookValuePerShareUSD == bookValuePerShareOf(fx, ends, equity)
              IN  /\ facts' = fx
                  /\ revenueRaw' = revenueSeries
                  /\ revenue' = lastNYears(keepMostCommonFiscalYearEndMonth(revenueSeries), 10)
                  /\ epsRaw' = epsSeries
                  /\ eps' = epsKept
                  /\ ocf' = ocfKept
                  /\ phase' = "normalized"
                  /\ request' =
                       [request EXCEPT
                          !.pc = "history", !.fetched = fetched,
                          !.capex = capex, !.equity = equity,
                          !.opIncome = opIncome, !.pretax = pretax,
                          !.taxes = taxes, !.cash = cash,
                          !.fcf = fcfOf(ends, ocfKept, capex),
                          !.roic = roicOf(fx, ends, opIncome, pretax, taxes, equity, cash),
                          !.bookValuePerShareUSD = bookValuePerShareUSD,
                          !.bookValuePerShareUSD_splitAdjusted =
                             splitAdjustedOf(request.ticker, bookValuePerShareUSD)]
                  /\ UNCHANGED response
  /\ UNCHANGED <<rule1Vars, nearest, search>>
  /\ UNCHANGED <<tickerToCikCache, stooqHistoryCache, calls>>

\* with the price history: the P/E per period end, their average, the
\* valuation, and the response
Respond(history, fetched) ==
  LET ends == endsOf(eps)
      peByYear == peByYearOf(ends, eps, history)
      averagePe10y == averagePeOf(peByYear)
      analystGrowth == numParam(NaN, Fin(1, 10))
      desiredReturn == numParam(NaN, Fin(1, 5))
      marginOfSafetyPercent == numParam(NaN, Num(40))
      growthBasis == growthBasisOf(request.growthBasisParam)
  IN  /\ inputs' = MkInputs(eps, request.bookValuePerShareUSD, request.fcf,
                            averagePe10y, request.price)
      /\ knobs' = MkKnobs(request.years, analystGrowth, desiredReturn,
                          marginOfSafetyPercent, growthBasis)
      /\ result' = calculateRule1(inputs', knobs')
      /\ request' = [request EXCEPT !.pc = "done", !.fetched = fetched,
                                    !.history = history, !.peByYear = peByYear,
                                    !.averagePe10y = averagePe10y]
      /\ response' =
           [status |-> 200,
            body |-> [ticker |-> request.ticker,
                      cik |-> request.cik10,
                      latestPriceUSD |-> request.price,
                      revenueUSD |-> revenue,
                      eps |-> eps,
                      freeCashFlowUSD |-> request.fcf,
                      bookValuePerShareUSD |-> request.bookValuePerShareUSD_splitAdjusted,
                      roic |-> request.roic,
                      peRatioByYear |-> peByYear,
                      averagePeRatio10y |-> averagePe10y,
                      valuations |-> [rule1 |-> [assumptions |-> knobs',
                                                 result |-> result']]]]

\* fetchStooqDailyHistory finds the history of the symbol cached
HistoryCached ==
  /\ request # NotRun
  /\ request.pc = "history"
  /\ stooqCacheKey(request.ticker) \in DOMAIN stooqHistoryCache
  /\ Respond(stooqHistoryCache[stooqCacheKey(request.ticker)], request.fetched)
  /\ UNCHANGED <<seriesVars, nearest, search>>
  /\ UNCHANGED <<tickerToCikCache, stooqHistoryCache, calls>>

\* fetchStooqDailyHistory fetches the history: an error is thrown, a CSV
\* without rows or columns gives [] and is not cached, any other is parsed,
\* sorted and cached
HistoryReplied(reply) ==
  /\ request # NotRun
  /\ request.pc = "history"
  /\ stooqCacheKey(request.ticker) \notin DOMAIN stooqHistoryCache
  /\ LET fetched == Append(request.fetched, Fetched("history", reply))
     IN  IF ~reply.ok
         THEN /\ Catch(reply.message, fetched)
              /\ UNCHANGED <<rule1Vars, stooqHistoryCache>>
         ELSE LET parsed == parseStooqHistory(reply.body)
              IN  /\ stooqHistoryCache' =
                       IF parsed.cached
                       THEN (stooqCacheKey(request.ticker) :> parsed.out) @@ stooqHistoryCache
                       ELSE stooqHistoryCache
                  /\ Respond(parsed.out, fetched)
  /\ UNCHANGED <<seriesVars, nearest, search>>
  /\ UNCHANGED <<tickerToCikCache, calls>>

NextGet ==
  \/ GetStart
  \/ \E reply \in PriceReplies : PriceReplied(reply)
  \/ TickerMapCached
  \/ \E reply \in TickerMapReplies : TickerMapReplied(reply)
  \/ \E reply \in FactsReplies : FactsReplied(reply)
  \/ HistoryCached
  \/ \E reply \in HistoryReplies : HistoryReplied(reply)

SpecGet == InitGet /\ [][NextGet]_vars

\* a call of fetchStooqDailyHistory not yet made
NoCall == [pc |-> "idle", ticker |-> "", reply |-> "none", ret |-> <<>>]

\* a process starts with an empty price-history cache
InitCache ==
  /\ IdleRule1
  /\ IdleSeries
  /\ nearest = NotRun
  /\ search = NotRun
  /\ request = NotRun
  /\ response = NotRun
  /\ tickerToCikCache = NoTickerMap
  /\ stooqHistoryCache = <<>>
  /\ calls = [c \in 1..MaxCalls |-> NoCall]

\* fetchStooqDailyHistory(ticker) is called: a cached history is returned,
\* otherwise the fetch is started and awaited
CallStart(c, ticker) ==
  /\ calls[c].pc = "idle"
  /\ LET key == stooqCacheKey(ticker)
     IN  calls' = [calls EXCEPT ![c] =
                     IF key \in DOMAIN stooqHistoryCache
                     THEN [pc |-> "returned", ticker |-> ticker, reply |-> "none",
                           ret |-> stooqHistoryCache[key]]
                     ELSE [pc |-> "fetching", ticker |-> ticker, reply |-> "none",
                           ret |-> <<>>]]
  /\ UNCHANGED stooqHistoryCache
  /\ UNCHANGED <<rule1Vars, seriesVars, nearest, search>>
  /\ UNCHANGED <<request, response, tickerToCikCache>>

\* the fetch of a call settles: an error is thrown, or the CSV is parsed,
\* cached under the key computed when the call started, and returned
CallReplied(c, reply) ==
  /\ calls[c].pc = "fetching"
  /\ IF ~reply.ok
     THEN /\ calls' = [calls EXCEPT ![c].pc = "thrown", ![c].reply = "error"]
          /\ UNCHANGED stooqHistoryCache
     ELSE LET parsed == parseStooqHistory(reply.body)
          IN  /\ calls' = [calls EXCEPT
                              ![c].pc = "returned",
                              ![c].reply = IF parsed.cached THEN "parsed" ELSE "malformed",
                              ![c].ret = parsed.out]
              /\ stooqHistoryCache' =
                   IF parsed.cached
                   THEN (stooqCacheKey(calls[c].ticker) :> parsed.out) @@ stooqHistoryCache
                   ELSE stooqHistoryCache
  /\ UNCHANGED <<rule1Vars, seriesVars, nearest, search>>
  /\ UNCHANGED <<request, response, tickerToCikCache>>

NextCache ==
  \/ \E c \in 1..MaxCalls : \E ticker \in CallTickers : CallStart(c, ticker)
  \/ \E c \in 1..MaxCalls :
       \E reply \in HistoryRepliesFor(calls[c].ticker) : CallReplied(c, reply)

SpecCache == InitCache /\ [][NextCache]_vars

\* closeOnOrBefore has been called: lo = 0, hi = history.length - 1, ans = -1
InitClose ==
  /\ IdleRule1
  /\ IdleSeries
  /\ nearest = NotRun
  /\ IdleHttp
  /\ search \in { [kind |-> "loop", history |-> h, isoDate |-> q,
                    lo |-> 0, hi |-> Len(h) - 1, ans |-> -1, ret |-> Null] :
                    h \in Histories, q \in QueryDates }

SearchStep_strict ==
  /\ search # NotRun
  /\ search.kind = "loop"
  /\ search.lo <= search.hi
  /\ LET mid == (search.lo + search.hi) \div 2
     IN  search' = IF search.history[mid + 1].date < search.isoDate
                   THEN [search EXCEPT !.ans = mid, !.lo = mid + 1]
                   ELSE [search EXCEPT !.hi = mid - 1]
  /\ UNCHANGED <<rule1Vars, seriesVars, nearest>>
  /\ UNCHANGED httpVars

\* one iteration of the while loop (the arrays of the model start at 1)
SearchStep ==
  /\ search # NotRun
  /\ search.kind = "loop"
  /\ search.lo <= search.hi
  /\ LET mid == (search.lo + search.hi) \div 2
     IN  search' = IF search.history[mid + 1].date <= search.isoDate
                   THEN [search EXCEPT !.ans = mid, !.lo = mid + 1]
                   ELSE [search EXCEPT !.hi = mid - 1]
  /\ UNCHANGED <<rule1Vars, seriesVars, nearest>>
  /\ UNCHANGED httpVars

\* the loop is left and the close found, or null, is returned
SearchReturn ==
  /\ search # NotRun
  /\ search.kind = "loop"
  /\ search.lo > search.hi
  /\ search' = [search EXCEPT
                  !.kind = "returned",
                  !.ret = IF search.ans >= 0 THEN search.history[search.ans + 1].close
                          ELSE Null]
  /\ UNCHANGED <<rule1Vars, seriesVars, nearest>>
  /\ UNCHANGED httpVars

NextClose == SearchStep \/ SearchReturn

SpecClose == InitClose /\ [][NextClose]_vars

\* the function runs without interruption until it returns
SpecCloseLive == SpecClose /\ WF_vars(NextClose)

(***************************************************************************)
(* Properties of the valuation engine.                                     *)
(***************************************************************************)
\* the points of a series that carry a finite value
Usable(series) == { pt \in { series[i] : i \in DOMAIN series } : pt.val.k = "fin" }

\* the series and the number of points the requested basis stands for
SelectedSeries ==
  CASE knobs.growthBasis \in {"bvps_5y", "bvps_10y"} -> inputs.bookValuePerShareUSD
    [] knobs.growthBasis \in {"fcf_5y", "fcf_10y"} -> inputs.freeCashFlowUSD
    [] knobs.growthBasis \in {"eps_5y", "eps_10y"} -> inputs.eps

RequiredPoints == IF knobs.growthBasis \in {"bvps_5y", "fcf_5y", "eps_5y"} THEN 6 ELSE 10

Available == Cardinality(Usable(SelectedSeries))

EpsUsable == Usable(inputs.eps) # {}

PeUsable == inputs.historicPeRatio.k = "fin" /\ inputs.historicPeRatio.n > 0

\* the usable point of a series with the greatest period end
LatestOf(series) ==
  CHOOSE pt \in Usable(series) : \A q \in Usable(series) : q.end <= pt.end

\* the usable point of the selected series that has exactly c usable points
\* at or after it
NthFromLast(c) ==
  CHOOSE pt \in Usable(SelectedSeries) :
    Cardinality({ q \in Usable(SelectedSeries) : q.end >= pt.end }) = c

IsSorted(series) ==
  \A i \in 1..(Len(series) - 1) : series[i].end < series[i + 1].end

\* C1: when EPS has a usable point and the historic P/E is usable, the
\* engine returns a Failure exactly when the selected basis series has fewer
\* finite-valued points than the basis requires (6 for *_5y, 10 for *_10y);
\* the Failure carries the requested basis, the required count and the
\* number of finite-valued points; otherwise it returns a Result.
C1_FailureIffTooFewPoints ==
  (result # NotRun /\ EpsUsable /\ PeUsable) =>
    /\ result.kind \in {"failure", "result"}
    /\ (result.kind = "failure") <=> (Available < RequiredPoints)
    /\ (result.kind = "failure") =>
         /\ result.error.growthBasis = knobs.growthBasis
         /\ result.error.pointsNeeded = RequiredPoints
         /\ result.error.pointsAvailable = Available
    /\ (Available = RequiredPoints) => (result.kind = "result")

\* a 10-point basis with 9 finite points among more listed points fails
C1_Witness ==
  /\ result.kind = "failure"
  /\ result.error.pointsNeeded = 10
  /\ result.error.pointsAvailable = 9
  /\ Len(SelectedSeries) > 9

\* C2: the engine returns null exactly when EPS has no finite-valued point
\* or the historic P/E is null, non-finite or <= 0, whatever the basis holds.
C2_NullIffPreconditionFails ==
  (result # NotRun) =>
    ((result.kind = "null") <=> (~EpsUsable \/ ~PeUsable))

\* null is returned for a zero P/E although the basis is too short as well
C2_Witness ==
  /\ result.kind = "null"
  /\ EpsUsable
  /\ inputs.historicPeRatio = Num(0)
  /\ Available < RequiredPoints

\* C3: in every Result the basis end is the usable point with the greatest
\* period end, the basis start is the point that has exactly pointsNeeded
\* usable points at or after it, pointsUsed = pointsNeeded and
\* yearsActual = max(1, year(end) - year(start)), whatever the input order.
C3_BasisEndpoints ==
  (result.kind = "result") =>
    LET e == LatestOf(SelectedSeries)
        b == NthFromLast(RequiredPoints)
        dy == (e.end \div 10000) - (b.end \div 10000)
    IN  /\ result.basis.endEnd = e.end
        /\ result.basis.endVal = e.val
        /\ result.basis.startEnd = b.end
        /\ result.basis.startVal = b.val
        /\ result.basis.pointsUsed = RequiredPoints
        /\ result.basis.yearsActual = (IF dy > 1 THEN dy ELSE 1)

\* a Result computed from a series that is not listed in ascending order
C3_Witness ==
  /\ result.kind = "result"
  /\ ~IsSorted(SelectedSeries)
  /\ Available < Len(SelectedSeries)
  /\ result.basis.yearsActual > 1

\* C4: with enough points and a start or end value <= 0 the engine still
\* returns a Result, whose basis growth is 0 and whose chosen growth is
\* min(analystGrowth, 0); a non-zero basis growth has both endpoints > 0.
C4_NonPositiveEndpointsGiveZeroGrowth ==
  /\ (result # NotRun /\ EpsUsable /\ PeUsable /\ Available >= RequiredPoints
        /\ (LatestOf(SelectedSeries).val.n <= 0
              \/ NthFromLast(RequiredPoints).val.n <= 0)) =>
       /\ result.kind = "result"
       /\ result.basis.growth = Num(0)
       /\ result.chosenGrowth =
            (IF knobs.analystGrowth.n < 0 THEN knobs.analystGrowth ELSE Num(0))
  /\ (result.kind = "result" /\ result.basis.growth # Num(0)) =>
       /\ result.basis.startVal.n > 0
       /\ result.basis.endVal.n > 0

\* a Result whose basis ends on a value <= 0 after a positive start
C4_Witness ==
  /\ result.kind = "result"
  /\ result.basis.endVal.n <= 0
  /\ result.basis.startVal.n > 0

\* C5: in every Result, futureValue = latestEps x historicPeUsed x
\* (1 + chosenGrowth)^years and stickerPrice = futureValue /
\* (1 + desiredReturn)^years, where latestEps is the value of the usable EPS
\* point with the greatest period end, whatever the basis and the order of
\* the EPS series, and historicPeUsed is the supplied historic P/E.
C5_ValuationFormula ==
  (result.kind = "result") =>
    /\ result.latestEps = LatestOf(inputs.eps).val
    /\ result.historicPeUsed = inputs.historicPeRatio
    /\ result.futureValue =
         NumMul(NumMul(result.latestEps, result.historicPeUsed),
                MathPow(NumAdd(Num(1), result.chosenGrowth), knobs.years))
    /\ result.stickerPrice =
         NumDiv(result.futureValue,
                MathPow(NumAdd(Num(1), knobs.desiredReturn), knobs.years))

\* a Result on a non-EPS basis from an EPS series listed latest-first
C5_Witness ==
  /\ result.kind = "result"
  /\ knobs.growthBasis \in {"bvps_5y", "fcf_5y"}
  /\ ~IsSorted(inputs.eps)
  /\ inputs.eps[Len(inputs.eps)] # LatestOf(inputs.eps)
  /\ knobs.years > 1
  /\ result.chosenGrowth # Num(0)

\* C6: in every Result, chosenGrowth = min(analystGrowth, basis growth), so
\* it is <= analystGrowth and <= basis.growth.
C6_ChosenGrowthIsMin ==
  (result.kind = "result") =>
    /\ result.chosenGrowth \in {knobs.analystGrowth, result.basis.growth}
    /\ NumLeq(result.chosenGrowth, knobs.analystGrowth)
    /\ NumLeq(result.chosenGrowth, result.basis.growth)

\* a Result whose basis growth is below the analyst estimate
C6_Witness ==
  /\ result.kind = "result"
  /\ NumLess(result.basis.growth, knobs.analystGrowth)
  /\ result.basis.growth # Num(0)

\* clamp((100 - marginOfSafetyPercent) / 100, 0, 1)
ClampedMosFactor ==
  LET m == knobs.marginOfSafetyPercent
  IN  IF m.n >= 100 * m.d THEN Num(0)
      ELSE IF m.n <= 0 THEN Num(1)
      ELSE Fin(100 * m.d - m.n, 100 * m.d)

\* C7 as stated: for every marginOfSafetyPercent, stickerPriceWithMOS =
\* stickerPrice x clamp((100 - marginOfSafetyPercent)/100, 0, 1); a margin
\* >= 100 gives 0 and a margin <= 0 gives stickerPrice.
C7_MosClamped_AsStated ==
  (result.kind = "result") =>
    /\ result.stickerPriceWithMOS = NumMul(result.stickerPrice, ClampedMosFactor)
    /\ (knobs.marginOfSafetyPercent.n >= 100 * knobs.marginOfSafetyPercent.d)
         => (result.stickerPriceWithMOS = Num(0))
    /\ (knobs.marginOfSafetyPercent.n <= 0)
         => (result.stickerPriceWithMOS = result.stickerPrice)

\* C7, amended: for every marginOfSafetyPercent, stickerPriceWithMOS =
\* stickerPrice x clamp((100 - marginOfSafetyPercent)/100, 0, 1); a margin
\* <= 0 gives stickerPrice, and a margin >= 100 gives 0 whenever stickerPrice
\* is finite (a desiredReturn of -1 makes stickerPrice infinite or NaN, and
\* the product with a factor of 0 is then NaN).
C7_MosClamped ==
  (result.kind = "result") =>
    /\ result.stickerPriceWithMOS = NumMul(result.stickerPrice, ClampedMosFactor)
    /\ (knobs.marginOfSafetyPercent.n >= 100 * knobs.marginOfSafetyPercent.d
          /\ NumberIsFinite(result.stickerPrice))
         => (result.stickerPriceWithMOS = Num(0))
    /\ (knobs.marginOfSafetyPercent.n <= 0)
         => (result.stickerPriceWithMOS = result.stickerPrice)

\* a margin of 150 percent turns a finite non-zero sticker price into 0
C7_Witness ==
  /\ result.kind = "result"
  /\ knobs.marginOfSafetyPercent = Num(150)
  /\ NumberIsFinite(result.stickerPrice)
  /\ result.stickerPrice # Num(0)
  /\ result.stickerPriceWithMOS = Num(0)

\* the horizon grows while the inputs and the other knobs stay as they are
YearsGrow ==
  /\ inputs' = inputs
  /\ knobs' = [knobs EXCEPT !.years = knobs'.years]
  /\ knobs'.years > knobs.years
  /\ result.kind = "result"
  /\ result'.kind = "result"

\* C8 as stated: for horizons years1 < years2 that both yield a Result with
\* chosenGrowth > desiredReturn, futureValue at years2 is strictly greater
\* than futureValue at years1.
C8_FutureValueGrows_AsStated ==
  [][(YearsGrow /\ NumLess(knobs.desiredReturn, result.chosenGrowth))
       => NumLess(result.futureValue, result'.futureValue)]_vars

\* C8, amended: for horizons years1 < years2 that both yield a Result with
\* chosenGrowth > desiredReturn, chosenGrowth > 0 and latestEps > 0,
\* futureValue at years2 is strictly greater than futureValue at years1.
C8_FutureValueGrows ==
  [][(YearsGrow /\ NumLess(knobs.desiredReturn, result.chosenGrowth)
        /\ result.chosenGrowth.n > 0 /\ result.latestEps.n > 0)
       => NumLess(result.futureValue, result'.futureValue)]_vars

\* a Result at a horizon above 1 with positive EPS and a positive chosen
\* growth above the desired return
C8_Witness ==
  /\ result.kind = "result"
  /\ knobs.years > 1
  /\ NumLess(knobs.desiredReturn, result.chosenGrowth)
  /\ result.chosenGrowth.n > 0
  /\ result.latestEps.n > 0
  /\ NumLess(NumMul(result.latestEps, result.historicPeUsed), result.futureValue)

\* C9 as stated: when chosenGrowth equals desiredReturn, stickerPrice equals
\* latestEps x historicPeUsed at every horizon.
C9_StickerInvariant_AsStated ==
  (result.kind = "result" /\ result.chosenGrowth = knobs.desiredReturn) =>
    (result.stickerPrice = NumMul(result.latestEps, result.historicPeUsed))

\* C9, amended: when chosenGrowth equals desiredReturn and desiredReturn is
\* not -1, stickerPrice equals latestEps x historicPeUsed at every horizon
\* (at chosenGrowth = desiredReturn = -1 it is 0/0, NaN).
C9_StickerInvariant ==
  (result.kind = "result" /\ result.chosenGrowth = knobs.desiredReturn
     /\ knobs.desiredReturn # Num(-1)) =>
    (result.stickerPrice = NumMul(result.latestEps, result.historicPeUsed))

\* a Result at a horizon above 1 whose non-zero chosen growth equals the
\* desired return
C9_Witness ==
  /\ result.kind = "result"
  /\ knobs.years > 1
  /\ result.chosenGrowth = knobs.desiredReturn
  /\ knobs.desiredReturn \notin {Num(0), Num(-1)}
  /\ result.futureValue # result.stickerPrice
  /\ result.stickerPrice # Num(0)

(***************************************************************************)
(* Properties of the fact-normalisation pipeline.                          *)
(***************************************************************************)
\* strictly increasing by period end, hence one point per period end
StrictlyIncreasing(series) ==
  \A i \in 1..Len(series) : \A j \in 1..Len(series) :
    (i < j) => (series[i].end < series[j].end)

\* the qualifying facts of an array, as a set of their positions
QualifyingAt(arr) == { i \in 1..Len(arr) : qualifiesAnnual(arr[i]) }

\* C10: the series pickAnnualSeriesByUnit and mergeAnnualUSDSeries return,
\* and what keepMostCommonFiscalYearEndMonth and lastNYears leave of them,
\* have at most one point per period end and increase strictly by period end.
C10_SeriesStrictlyIncreasing ==
  (phase = "normalized") =>
    /\ StrictlyIncreasing(revenueRaw)
    /\ StrictlyIncreasing(revenue)
    /\ StrictlyIncreasing(epsRaw)
    /\ StrictlyIncreasing(eps)
    /\ StrictlyIncreasing(ocf)
    /\ StrictlyIncreasing(pickAnnualUSDSeries(facts, OcfTags))

\* series normalized from an unsorted array that files some period ends
\* twice, covers more than ten years and changes its fiscal year end
C10_Witness ==
  /\ phase = "normalized"
  /\ "EarningsPerShareDiluted" \in DOMAIN facts.usGaap
  /\ LET arr == facts.usGaap["EarningsPerShareDiluted"].units[1].items
     IN  /\ Cardinality(QualifyingAt(arr)) > Len(epsRaw)
         /\ \E i \in QualifyingAt(arr) : \E j \in QualifyingAt(arr) :
              i < j /\ arr[i].end > arr[j].end
  /\ Len(epsRaw) > 10
  /\ Len(eps) < 10
  /\ Len(eps) > 1
  /\ Len(revenueRaw) > Len(epsRaw)
  /\ Len(revenue) = 10

\* the filter of the normalizers, fact by fact: annual form, full fiscal
\* year, a string period end, a finite value and no quarterly frame
IsAnnualFact(x) ==
  /\ x.present
  /\ x.form = "10-K"
  /\ x.fp = "FY"
  /\ x.end # 0
  /\ x.val.k = "fin"
  /\ x.frame \notin QuarterlyFrames

\* the facts of an array, as a set
FactsIn(arr) == { arr[i] : i \in 1..Len(arr) }

\* the arrays filed under a tag in a unit of the given keys, in key order
ArraysUnder(fx, tag, keys) ==
  IF tag \in DOMAIN fx.usGaap /\ fx.usGaap[tag].hasUnits
  THEN SelectSeq(fx.usGaap[tag].units, LAMBDA u : u.key \in keys)
  ELSE <<>>

\* the annual facts of the first unit of the given keys filed under a tag
AnnualFactsOfFirstUnit(fx, tag, keys) ==
  LET us == ArraysUnder(fx, tag, keys)
  IN  IF us = <<>> \/ ~us[1].isArray THEN {}
      ELSE { x \in FactsIn(us[1].items) : IsAnnualFact(x) }

\* the annual facts filed in USD under any of the tags
AnnualFactsOfAllTags(fx, tags) ==
  UNION { AnnualFactsOfFirstUnit(fx, tags[i], {"USD"}) : i \in 1..Len(tags) }

\* |a| <= |b| for two finite numbers
AbsLeq(a, b) == Abs(a.n) * b.d <= Abs(b.n) * a.d

\* series has one point for every period end of the annual facts Q, and
\* the point carries a value of greatest magnitude filed for that end
KeepsLargestOf(series, Q) ==
  /\ { series[i].end : i \in 1..Len(series) } = { x.end : x \in Q }
  /\ \A i \in 1..Len(series) :
       /\ \E x \in Q : x.end = series[i].end /\ x.val = series[i].val
       /\ \A y \in Q : (y.end = series[i].end) => AbsLeq(y.val, series[i].val)

\* C11: when several qualifying facts share a period end, the normalized
\* point carries the value of largest absolute value among them, in
\* whatever order they are listed; facts failing a filter contribute nothing.
C11_DedupKeepsLargestMagnitude ==
  (phase = "normalized") =>
    /\ KeepsLargestOf(revenueRaw, AnnualFactsOfAllTags(facts, RevenueTags))
    /\ \/ epsRaw = <<>>
       \/ \E i \in 1..Len(EpsTags) :
            KeepsLargestOf(epsRaw, AnnualFactsOfFirstUnit(facts, EpsTags[i], unitIsEPS))
    /\ LET ocfAll == pickAnnualUSDSeries(facts, OcfTags)
       IN  \/ ocfAll = <<>>
           \/ KeepsLargestOf(ocfAll, AnnualFactsOfFirstUnit(facts, OcfTags[1], {"USD"}))

\* a period end whose kept value is negative and filed after a positive
\* value of smaller magnitude, and a period end for which a fact of
\* greater magnitude was filed that fails a filter
C11_Witness ==
  /\ phase = "normalized"
  /\ "Revenues" \in DOMAIN facts.usGaap
  /\ facts.usGaap["Revenues"].units[1].key = "USD"
  /\ facts.usGaap["Revenues"].units[1].isArray
  /\ LET arr == facts.usGaap["Revenues"].units[1].items
     IN  /\ \E p \in FactsIn(revenueRaw) : \E i \in 1..Len(arr) : \E j \in 1..Len(arr) :
              /\ i < j
              /\ IsAnnualFact(arr[i]) /\ IsAnnualFact(arr[j])
              /\ arr[i].end = p.end /\ arr[j].end = p.end
              /\ arr[j].val = p.val /\ p.val.n < 0
              /\ arr[i].val.n > 0 /\ arr[i].val.n < -p.val.n
         /\ \E p \in FactsIn(revenueRaw) : \E i \in 1..Len(arr) :
              /\ ~IsAnnualFact(arr[i])
              /\ arr[i].end = p.end /\ arr[i].val.k = "fin"
              /\ ~AbsLeq(arr[i].val, p.val)

\* series is the normalized series of the annual facts Q
NormalizedOf(series, Q) == KeepsLargestOf(series, Q) /\ StrictlyIncreasing(series)

\* the sets of annual facts filed under a tag, one set for every array
\* filed in a unit of the given keys
AnnualFactsOfEachUnit(fx, tag, keys) ==
  LET us == ArraysUnder(fx, tag, keys)
  IN  { { x \in FactsIn(us[i].items) : IsAnnualFact(x) } :
          i \in { j \in 1..Len(us) : us[j].isArray } }

\* the candidate tags that have an annual fact under some unit of the keys
TagsWithAnnualFacts(fx, tags, keys) ==
  { i \in 1..Len(tags) : \E Q \in AnnualFactsOfEachUnit(fx, tags[i], keys) : Q # {} }

\* the candidate tags that have an annual fact under their first unit of
\* the keys
TagsWithAnnualFactsFirstUnit(fx, tags, keys) ==
  { i \in 1..Len(tags) : AnnualFactsOfFirstUnit(fx, tags[i], keys) # {} }

FirstOf(S) == CHOOSE i \in S : \A j \in S : i <= j

\* the claim as stated, for one call: the first tag with an annual fact
\* under a unit the predicate accepts gives the result
FirstTagOfAnyUnitWins(series, fx, tags, keys) ==
  LET T == TagsWithAnnualFacts(fx, tags, keys)
  IN  IF T = {} THEN series = <<>>
      ELSE \E Q \in AnnualFactsOfEachUnit(fx, tags[FirstOf(T)], keys) :
             Q # {} /\ NormalizedOf(series, Q)

\* the same for the first unit the predicate accepts
FirstTagOfFirstUnitWins(series, fx, tags, keys) ==
  LET T == TagsWithAnnualFactsFirstUnit(fx, tags, keys)
  IN  IF T = {} THEN series = <<>>
      ELSE NormalizedOf(series, AnnualFactsOfFirstUnit(fx, tags[FirstOf(T)], keys))

\* C12 as stated: pickAnnualSeriesByUnit returns the normalized series of
\* the first candidate tag that has a qualifying fact under a unit
\* satisfying the predicate, and the empty series when there is none.
C12_FirstQualifyingTagWins_AsStated ==
  (phase = "normalized") =>
    /\ FirstTagOfAnyUnitWins(epsRaw, facts, EpsTags, unitIsEPS)
    /\ FirstTagOfAnyUnitWins(pickAnnualUSDSeries(facts, OcfTags), facts, OcfTags, unitIsUSD)

\* C12 amended: pickAnnualSeriesByUnit returns the normalized series of the
\* first candidate tag that has a qualifying fact under the first unit key
\* satisfying the predicate (the only unit of a tag it reads); no later tag
\* contributes, a tag whose facts all fail is skipped, and the result is
\* empty when no tag qualifies, malformed structures included.
C12_FirstQualifyingTagWins ==
  (phase = "normalized") =>
    /\ FirstTagOfFirstUnitWins(epsRaw, facts, EpsTags, unitIsEPS)
    /\ FirstTagOfFirstUnitWins(pickAnnualUSDSeries(facts, OcfTags), facts, OcfTags, unitIsUSD)

\* the first candidate tag files facts that all fail the filters and the
\* second candidate tag, which files other period ends, gives the series
C12_Witness ==
  /\ phase = "normalized"
  /\ ArraysUnder(facts, EpsTags[1], unitIsEPS) # <<>>
  /\ ArraysUnder(facts, EpsTags[1], unitIsEPS)[1].isArray
  /\ ArraysUnder(facts, EpsTags[1], unitIsEPS)[1].items # <<>>
  /\ TagsWithAnnualFactsFirstUnit(facts, EpsTags, unitIsEPS) = {2}
  /\ Len(epsRaw) > 2
  /\ \A x \in FactsIn(ArraysUnder(facts, EpsTags[1], unitIsEPS)[1].items) :
       \A i \in 1..Len(epsRaw) : x.end # epsRaw[i].end \/ x.val # epsRaw[i].val

(***************************************************************************)
(* Properties of the nearest-date lookups.                                 *)
(***************************************************************************)
\* the candidates of a lookup, as a set: the facts with a string date and
\* a finite value filed under its tags in the unit it reads
CandidatesUnder(fx, tags, keys) ==
  UNION { LET us == ArraysUnder(fx, tags[i], keys)
          IN  IF us = <<>> \/ ~us[1].isArray THEN {}
              ELSE { x \in FactsIn(us[1].items) : x.present /\ x.end # 0 /\ x.val.k = "fin" }
        : i \in 1..Len(tags) }

ShareCandidates == CandidatesUnder(facts, ShareTags, unitIsShares)

EquityCandidates == CandidatesUnder(facts, EquityTags, {"USD"})

CashCandidates == CandidatesUnder(facts, CashTags, {"USD"})

DebtCandidates == CandidatesUnder(facts, DebtTags, {"USD"})

\* the distance in calendar days of a candidate to the target period end
CalendarDays(c) == Abs(epochDay(c.end) - epochDay(nearest.end))

\* a returned value belongs to no candidate farther than tol calendar days
\* from the target, and nothing is returned when every candidate is farther
WithinTolerance(v, C, tol) ==
  /\ \A c \in C : (v = c.val) => CalendarDays(c) <= tol
  /\ (C # {} /\ \A c \in C : CalendarDays(c) > tol) => v = Null

\* C13: no nearest-date lookup returns the value of a candidate farther
\* from the target period end than its tolerance in calendar days (180 for
\* share counts, 200 for equity, cash and long-term debt); it returns
\* absent when the nearest candidate is farther.
C13_NearestWithinTolerance ==
  (nearest # NotRun) =>
    /\ WithinTolerance(nearest.shares, ShareCandidates, 180)
    /\ WithinTolerance(nearest.equity, EquityCandidates, 200)
    /\ WithinTolerance(nearest.cash, CashCandidates, 200)
    /\ WithinTolerance(nearest.debt, DebtCandidates, 200)

\* of two nearest candidates at the same calendar distance within tol, one
\* dated before and one after the target, the earlier one is returned
EarlierOnTie(v, C, tol) ==
  \A c1 \in C : \A c2 \in C :
    ( /\ c1.end < nearest.end /\ nearest.end < c2.end
      /\ CalendarDays(c1) = CalendarDays(c2)
      /\ CalendarDays(c1) <= tol
      /\ \A c \in C : CalendarDays(c1) <= CalendarDays(c) )
    => v = c1.val

\* C14: when two candidates with different dates are equally distant from
\* the target date, every nearest-date lookup returns the value of the
\* earlier-dated one, whatever the order and the tags they are filed in.
C14_TieReturnsEarlier ==
  (nearest # NotRun) =>
    /\ EarlierOnTie(nearest.shares, ShareCandidates, 180)
    /\ EarlierOnTie(nearest.equity, EquityCandidates, 200)
    /\ EarlierOnTie(nearest.cash, CashCandidates, 200)
    /\ EarlierOnTie(nearest.debt, DebtCandidates, 200)

\* a returned value belongs to a candidate, and no candidate is strictly
\* closer to the target in calendar days than the one it belongs to
MinimalDistance(v, C) ==
  (v # Null) =>
    \E c \in C : v = c.val /\ \A o \in C : CalendarDays(c) <= CalendarDays(o)

\* C19: a nearest-date lookup that returns a value returns the value of a
\* candidate whose calendar-day distance to the target period end is
\* minimal among all the candidates collected across the lookup's tags.
C19_NearestIsMinimal ==
  (nearest # NotRun) =>
    /\ MinimalDistance(nearest.shares, ShareCandidates)
    /\ MinimalDistance(nearest.equity, EquityCandidates)
    /\ MinimalDistance(nearest.cash, CashCandidates)
    /\ MinimalDistance(nearest.debt, DebtCandidates)

(***************************************************************************)
(* Properties of the price-history lookup.                                 *)
(***************************************************************************)
\* the entries of the searched history dated on or before the query date
OnOrBefore == { i \in 1..Len(search.history) : search.history[i].date <= search.isoDate }

\* the returned close is the close of an entry of greatest date among those
\* on or before the query date, and null exactly when there is none
ReturnsLatestClose ==
  (search # NotRun /\ search.kind = "returned") =>
    IF OnOrBefore = {} THEN search.ret = Null
    ELSE /\ search.ret # Null
         /\ \E i \in OnOrBefore :
              /\ \A j \in OnOrBefore : search.history[j].date <= search.history[i].date
              /\ search.ret = search.history[i].close

\* C15: for a history sorted ascending by date closeOnOrBefore terminates
\* and returns the close of the entry with the greatest date <= the query
\* date; it returns absent exactly when the history is empty or every entry
\* is dated after the query date.
C15_CloseOnOrBefore ==
  /\ []ReturnsLatestClose
  /\ <>(search # NotRun /\ search.kind = "returned")

\* a close returned from the middle of a history of full length in which
\* the query date itself is a trading day filed twice
C15_Witness ==
  /\ search # NotRun
  /\ search.kind = "returned"
  /\ Len(search.history) = MaxHistory
  /\ search.ans > 0
  /\ search.ans + 1 < Len(search.history)
  /\ search.history[search.ans + 1].date = search.isoDate
  /\ search.history[search.ans].date = search.isoDate
  /\ search.ret = search.history[search.ans + 1].close

(***************************************************************************)
(* Properties of the requests.                                             *)
(***************************************************************************)
\* the book value per share of a period end on the current share basis:
\* equity / shares / cumulative split factor
SplitAdjustedBookValue(end) ==
  LET eq == equityAt(facts, request.equity, end)
      sh == pickSharesNearestToEndDate(facts, end)
  IN  NumDiv(NumDiv(eq, sh), Num(cumulativeSplitFactor(request.ticker, end)))

\* C16: the book-value-per-share series the valuation engine uses as its
\* bvps growth basis is split-adjusted: it is the series the response
\* reports as bookValuePerShareUSD, every point of it equity / shares
\* divided by the cumulative split factor of its period end.
C16_BasisIsSplitAdjusted ==
  (response # NotRun /\ response.status = 200) =>
    /\ inputs.bookValuePerShareUSD = response.body.bookValuePerShareUSD
    /\ \A i \in 1..Len(inputs.bookValuePerShareUSD) :
         LET pt == inputs.bookValuePerShareUSD[i]
         IN  (pt.val # Null) => (pt.val = SplitAdjustedBookValue(pt.end))

\* the retrievals of the request that failed
FailedFetches ==
  { i \in 1..Len(request.fetched) : ~request.fetched[i].ok }

\* nothing has been computed for the response
NothingComputed ==
  /\ result = NotRun
  /\ request.peByYear = <<>>
  /\ request.averagePe10y = Null

\* C18: a request in which a retrieval fails (latest price, ticker map,
\* company facts, price history) makes no further retrieval and no retry,
\* computes nothing more and is answered with status 400 and the message of
\* the failure, without series or valuation; an insufficient-data Failure
\* is delivered in a response of status 200 as valuations.rule1.result with
\* error.type GROWTH_BASIS_UNAVAILABLE.
C18_RetrievalFailureIsFatal ==
  (request # NotRun) =>
    /\ \A i \in FailedFetches :
         /\ i = Len(request.fetched)
         /\ request.pc = "done"
         /\ response = [status |-> 400, body |-> [error |-> request.fetched[i].message]]
         /\ NothingComputed
         /\ (request.fetched[i].what # "history") => (eps = <<>> /\ phase = "idle")
    /\ \A i \in 1..Len(request.fetched) : \A j \in 1..Len(request.fetched) :
         (i # j) => (request.fetched[i].what # request.fetched[j].what)
    /\ (result # NotRun /\ result.kind = "failure") =>
         /\ response # NotRun
         /\ response.status = 200
         /\ response.body.valuations.rule1.result = result
         /\ result.error.type = "GROWTH_BASIS_UNAVAILABLE"

\* the price history fails after the facts were fetched and seven years of
\* series were computed from them
C18_Witness ==
  /\ request # NotRun
  /\ Len(request.fetched) = 4
  /\ FailedFetches = {4}
  /\ Len(eps) = 7
  /\ \E i \in 1..7 : request.bookValuePerShareUSD[i].val # Null
  /\ response # NotRun
  /\ response.status = 400

(***************************************************************************)
(* Properties of the price-history cache.                                  *)
(***************************************************************************)
\* h holds every row of the CSV that has a date and a finite close, once,
\* in ascending order of date
IsCompleteHistory(h, rows) ==
  LET kept == { r \in FactsIn(rows) : r.date > 0 /\ r.close.k = "fin" }
  IN  /\ FactsIn(h) = kept
      /\ Len(h) = Cardinality(kept)
      /\ \A i \in 1..Len(h) : \A j \in 1..Len(h) : (i < j) => (h[i].date <= h[j].date)

\* every entry is kept under an upper-case ticker and is the complete
\* history a call for that symbol parsed from a successful fetch
EntriesAreComplete ==
  \A key \in DOMAIN stooqHistoryCache :
    /\ key = toUpperCase(key)
    /\ \E day \in 1..2 : IsCompleteHistory(stooqHistoryCache[key], RowsOf(key, day))
    /\ \E c \in DOMAIN calls :
         /\ calls[c].reply = "parsed"
         /\ toUpperCase(calls[c].ticker) = key
         /\ calls[c].ret = stooqHistoryCache[key]

\* a fetch that fails, or whose CSV cannot be read, leaves the cache as it is
FailureKeepsCache ==
  \A c \in DOMAIN calls :
    (calls[c].pc = "fetching" /\ calls'[c].reply \in {"error", "malformed"})
      => (stooqHistoryCache' = stooqHistoryCache)

\* a call made when the cache holds an entry for its symbol, in whatever
\* letter case the ticker is given, returns the entry and fetches nothing
HitReturnsEntry ==
  \A c \in DOMAIN calls :
    ( /\ calls[c].pc = "idle" /\ calls'[c].pc # "idle"
      /\ toUpperCase(calls'[c].ticker) \in DOMAIN stooqHistoryCache )
    => /\ calls'[c].pc = "returned"
       /\ calls'[c].reply = "none"
       /\ calls'[c].ret = stooqHistoryCache[toUpperCase(calls'[c].ticker)]
       /\ stooqHistoryCache' = stooqHistoryCache

\* C17: across all interleavings of price-history lookups the entry of a
\* symbol is only ever the complete parsed history of a successful fetch
\* for that symbol, a failed fetch leaves the cache unchanged, the key is
\* the upper-cased ticker, and a lookup made once an entry exists returns
\* that complete history without fetching.
C17_CacheAllOrNothing ==
  /\ []EntriesAreComplete
  /\ [][FailureKeepsCache /\ HitReturnsEntry]_vars

\* a lookup for "aapl" answered from the entry a lookup for "AAPL" wrote,
\* while a third lookup for the symbol has failed
C17_Witness ==
  /\ calls # NoCalls
  /\ \E c1 \in DOMAIN calls : \E c2 \in DOMAIN calls : \E c3 \in DOMAIN calls :
       /\ calls[c1].ticker = "AAPL" /\ calls[c1].reply = "parsed"
       /\ calls[c2].ticker = "aapl" /\ calls[c2].pc = "returned"
       /\ calls[c2].reply = "none"
       /\ calls[c2].ret = stooqHistoryCache["AAPL"]
       /\ Len(calls[c2].ret) = 3
       /\ calls[c3].pc = "thrown"

(***************************************************************************)
(* Properties of the fiscal-year-end reconciliation.                       *)
(***************************************************************************)
\* the month of a period end
MonthOfEnd(end) == (end % 10000) \div 100

\* how many points of a series end in month m
EndingIn(series, m) == Cardinality({ i \in 1..Len(series) : MonthOfEnd(series[i].end) = m })

\* out is what is left of series when only the points of one of its most
\* frequent end months are kept, in their order
KeepsOneModalMonth(series, out) ==
  IF series = <<>> THEN out = <<>>
  ELSE LET count == [m \in 1..12 |-> EndingIn(series, m)]
       IN  /\ out # <<>>
           /\ \E m \in 1..12 :
                /\ \A o \in 1..12 : count[o] <= count[m]
                /\ out = SelectSeq(series, LAMBDA pt : MonthOfEnd(pt.end) = m)
                /\ \A i \in 1..Len(out) : MonthOfEnd(out[i].end) = m

\* C20: keepMostCommonFiscalYearEndMonth returns exactly the points of its
\* input whose end month is one single month of maximal count, in their
\* original order; all other points are discarded, an empty input gives an
\* empty output and a non-empty input a non-empty output.
C20_KeepsModalMonth ==
  (phase = "normalized") =>
    /\ KeepsOneModalMonth(revenueRaw, keepMostCommonFiscalYearEndMonth(revenueRaw))
    /\ KeepsOneModalMonth(epsRaw, keepMostCommonFiscalYearEndMonth(epsRaw))
    /\ \E m \in 1..12 : \A i \in 1..Len(eps) : MonthOfEnd(eps[i].end) = m
    /\ \E m \in 1..12 : \A i \in 1..Len(revenue) : MonthOfEnd(revenue[i].end) = m

\* a company that moved its fiscal year end: the points of the earlier,
\* rarer month are discarded and the later ones kept in their order
C20_Witness ==
  /\ phase = "normalized"
  /\ Len(epsRaw) > 3
  /\ Len(eps) < Len(epsRaw)
  /\ Len(eps) > 1
  /\ MonthOfEnd(eps[1].end) # MonthOfEnd(epsRaw[1].end)
  /\ eps = SubSeq(epsRaw, Len(epsRaw) - Len(eps) + 1, Len(epsRaw))


(***************************************************************************)
(* Properties of the metrics derived per period end.                       *)
(***************************************************************************)
\* the handler has computed the metrics of the request
MetricsComputed == request # NotRun /\ phase = "normalized"

\* the registered splits of a ticker that took effect strictly after a day
SplitsAfter(ticker, end) ==
  { k \in 1..Len(SPLITS_BY_TICKER(ticker)) : SPLITS_BY_TICKER(ticker)[k].effectiveDate > end }

\* the product of the ratios of a set of registered splits of a ticker
RECURSIVE ProductOfRatios(_, _)
ProductOfRatios(ticker, ks) ==
  IF ks = {} THEN 1
  ELSE LET k == CHOOSE x \in ks : TRUE
       IN  SPLITS_BY_TICKER(ticker)[k].ratio * ProductOfRatios(ticker, ks \ {k})

\* C21: cumulativeSplitFactor is the product of the ratios of the registered
\* splits of the ticker effective strictly after the period end, 1 when
\* there is none; every present split-adjusted BVPS point is the unadjusted
\* point divided by that factor, and absent points stay absent.
C21_SplitFactorStrictlyAfter ==
  MetricsComputed =>
    /\ Len(request.bookValuePerShareUSD_splitAdjusted) = Len(request.bookValuePerShareUSD)
    /\ \A i \in 1..Len(request.bookValuePerShareUSD) :
         LET raw == request.bookValuePerShareUSD[i]
             adj == request.bookValuePerShareUSD_splitAdjusted[i]
             factor == ProductOfRatios(request.ticker, SplitsAfter(request.ticker, raw.end))
         IN  /\ cumulativeSplitFactor(request.ticker, raw.end) = factor
             /\ (SplitsAfter(request.ticker, raw.end) = {}) => (factor = 1)
             /\ adj.end = raw.end
             /\ (raw.val = Null) <=> (adj.val = Null)
             /\ (raw.val # Null) => (adj.val = NumDiv(raw.val, Num(factor)))

\* a company with a registered split: a year that ended before the split is
\* divided by its ratio, the year that ended on the day of the split is not
C21_Witness ==
  /\ MetricsComputed
  /\ request.ticker = "AAPL"
  /\ \E i \in 1..Len(request.bookValuePerShareUSD) :
     \E j \in 1..Len(request.bookValuePerShareUSD) :
       LET raw == request.bookValuePerShareUSD
           adj == request.bookValuePerShareUSD_splitAdjusted
       IN  /\ raw[i].end = 20190831 /\ raw[i].val # Null
           /\ adj[i].val = NumDiv(raw[i].val, Num(4))
           /\ raw[j].end = 20200831 /\ raw[j].val # Null
           /\ adj[j].val = raw[j].val


\* the points of a series at a period end
PointsAt(series, end) == { k \in 1..Len(series) : series[k].end = end }

\* C22: for every EPS period end the free-cash-flow point is present if and
\* only if the operating-cash-flow series and the capital-expenditure series
\* both have a point at exactly that period end, and it is then the cash
\* flow minus the expenditure of that period end; a value of another date is
\* never used.
C22_FcfExactMatchOnly ==
  MetricsComputed =>
    /\ Len(request.fcf) = Len(eps)
    /\ \A i \in 1..Len(eps) :
         LET end == eps[i].end
             os == PointsAt(ocf, end)
             cs == PointsAt(request.capex, end)
         IN  /\ request.fcf[i].end = end
             /\ (request.fcf[i].val # Null) <=> (os # {} /\ cs # {})
             /\ (os # {} /\ cs # {}) =>
                  \A o \in os : \A c \in cs :
                    request.fcf[i].val = NumSub(ocf[o].val, request.capex[c].val)

\* a year with cash flow and expenditure of its period end, a year whose
\* expenditure is dated three days before the period end and a year whose
\* cash flow is dated the day before it
C22_Witness ==
  /\ MetricsComputed
  /\ \E i \in 1..Len(eps) : request.fcf[i].val # Null
  /\ \E i \in 1..Len(eps) :
       /\ request.fcf[i].val = Null
       /\ PointsAt(ocf, eps[i].end) # {}
       /\ \E c \in 1..Len(request.capex) :
            /\ request.capex[c].end # eps[i].end
            /\ daysBetween(request.capex[c].end, eps[i].end) <= 3
  /\ \E i \in 1..Len(eps) :
       /\ request.fcf[i].val = Null
       /\ \E o \in 1..Len(ocf) :
            /\ ocf[o].end # eps[i].end
            /\ daysBetween(ocf[o].end, eps[i].end) <= 1


\* the value a series holds at a period end, Null when it has no point there
ValueAt(series, end) ==
  IF PointsAt(series, end) = {} THEN Null
  ELSE series[CHOOSE k \in PointsAt(series, end) : TRUE].val

\* clamp(x, 0, 1) of a finite number
Clamp01(x) ==
  IF NumLess(x, Num(0)) THEN Num(0)
  ELSE IF NumLess(Num(1), x) THEN Num(1)
  ELSE x

\* the six inputs of the ROIC of a period end, as the handler obtains them:
\* operating income, pretax income and tax expense of that period end,
\* equity and cash of that period end or else from the nearest-date lookup,
\* long-term debt from the nearest-date lookup
RoicInputs(end) ==
  [op |-> ValueAt(request.opIncome, end),
   pt |-> ValueAt(request.pretax, end),
   tx |-> ValueAt(request.taxes, end),
   eq |-> IF ValueAt(request.equity, end) # Null THEN ValueAt(request.equity, end)
          ELSE pickNearestUSDValue(facts, EquityTags, end, 200),
   ca |-> IF ValueAt(request.cash, end) # Null THEN ValueAt(request.cash, end)
          ELSE pickNearestUSDValue(facts, CashTags, end, 200),
   debt |-> pickDebtNearestToEndDate(facts, end)]

AllAvailable(in) ==
  /\ in.op # Null /\ in.pt # Null /\ in.tx # Null
  /\ in.eq # Null /\ in.ca # Null /\ in.debt # Null

InvestedCapital(in) == NumSub(NumAdd(in.eq, in.debt), in.ca)

RoicAt(end) == ValueAt(request.roic, end)

Answered == response # NotRun /\ response.status = 200

\* the closes of the price history of the request on or before a day
Priced(end) == { k \in 1..Len(request.history) : request.history[k].date <= end }

\* the close of the latest of them
LatestClose(end) ==
  request.history[CHOOSE k \in Priced(end) :
                    \A j \in Priced(end) : request.history[j].date <= request.history[k].date].close

\* the EPS period ends with a positive EPS and a close on or before them
Qualifying == { i \in 1..Len(eps) : NumLess(Num(0), eps[i].val) /\ Priced(eps[i].end) # {} }

\* the sum of price / EPS over a set of EPS period ends
RECURSIVE SumOfPe(_)
SumOfPe(is) ==
  IF is = {} THEN Num(0)
  ELSE LET i == CHOOSE x \in is : TRUE
       IN  NumAdd(NumDiv(LatestClose(eps[i].end), eps[i].val), SumOfPe(is \ {i}))

\* C24: the historic P/E the valuation engine receives is the arithmetic
\* mean of close-on-or-before-period-end / EPS over exactly the EPS period
\* ends with EPS > 0 and such a close; the other period ends count neither
\* in the sum nor in the number, and without a qualifying period end the
\* average is absent.
C24_AveragePeOverQualifying ==
  Answered =>
    /\ inputs.historicPeRatio = request.averagePe10y
    /\ inputs.historicPeRatio =
         IF Qualifying = {} THEN Null
         ELSE NumDiv(SumOfPe(Qualifying), Num(Cardinality(Qualifying)))

\* seven years of which one has a negative EPS, one an EPS of zero and a
\* close before it, two a positive EPS but no close yet, and three qualify
C24_Witness ==
  /\ Answered
  /\ Len(eps) = 7
  /\ Cardinality(Qualifying) = 3
  /\ \E i \in 1..Len(eps) : NumLess(eps[i].val, Num(0))
  /\ \E i \in 1..Len(eps) : eps[i].val = Num(0) /\ Priced(eps[i].end) # {}
  /\ \E i \in 1..Len(eps) : NumLess(Num(0), eps[i].val) /\ Priced(eps[i].end) = {}
  /\ inputs.historicPeRatio = Num(60)


\* the tags of the facts the derived metrics read besides EPS
InputTags ==
  UNION { { t[i] : i \in 1..Len(t) } :
          t \in { OcfTags, CapexTags, EquityTags, ShareTags, OpIncomeTags,
                  PretaxTags, TaxTags, CashTags, DebtTags } }

\* the facts without what was filed under those tags for one period end
WithoutInputsOf(fx, end) ==
  [usGaap |->
     [tag \in DOMAIN fx.usGaap |->
        IF tag \notin InputTags THEN fx.usGaap[tag]
        ELSE [hasUnits |-> fx.usGaap[tag].hasUnits,
              units |-> [u \in 1..Len(fx.usGaap[tag].units) |->
                           [fx.usGaap[tag].units[u] EXCEPT
                              !.items = SelectSeq(@, LAMBDA x : x.end # end)]]]]]

\* the metrics the handler derives from given facts for the EPS period ends
MetricsOf(fx) ==
  LET ends == endsOf(eps)
      ocfKept == lastNYears(pickAnnualUSDSeries(fx, OcfTags), 10)
      capex == lastNYears(pickAnnualUSDSeries(fx, CapexTags), 10)
      equity == lastNYears(pickAnnualUSDSeries(fx, EquityTags), 10)
      opIncome == lastNYears(pickAnnualUSDSeries(fx, OpIncomeTags), 10)
      pretax == lastNYears(pickAnnualUSDSeries(fx, PretaxTags), 10)
      taxes == lastNYears(pickAnnualUSDSeries(fx, TaxTags), 10)
      cash == lastNYears(pickAnnualUSDSeries(fx, CashTags), 10)
      bvps == bookValuePerShareOf(fx, ends, equity)
  IN  [fcf |-> fcfOf(ends, ocfKept, capex),
       bookValuePerShareUSD |-> bvps,
       bookValuePerShareUSD_splitAdjusted |-> splitAdjustedOf(request.ticker, bvps),
       roic |-> roicOf(fx, ends, opIncome, pretax, taxes, equity, cash)]

\* the metrics of the request
MetricsOfRequest ==
  [fcf |-> request.fcf,
   bookValuePerShareUSD |-> request.bookValuePerShareUSD,
   bookValuePerShareUSD_splitAdjusted |-> request.bookValuePerShareUSD_splitAdjusted,
   roic |-> request.roic]

MetricNames == {"fcf", "bookValuePerShareUSD", "bookValuePerShareUSD_splitAdjusted", "roic"}

\* a series has one point per EPS period end, in the order of the EPS series
AlignedWithEps(series) ==
  /\ Len(series) = Len(eps)
  /\ \A i \in 1..Len(eps) : series[i].end = eps[i].end

\* every metric series is aligned with the EPS series
MetricsAligned ==
  /\ MetricsComputed => \A name \in MetricNames : AlignedWithEps(MetricsOfRequest[name])
  /\ Answered => AlignedWithEps(request.peByYear)

\* the metric `name` of every period end but the j-th is what it is without
\* the inputs filed for the j-th period end
UnaffectedByInputsOf(j, name) ==
  LET without == MetricsOf(WithoutInputsOf(facts, eps[j].end))[name]
  IN  \A i \in 1..Len(eps) : (i # j) => (without[i] = MetricsOfRequest[name][i])

\* the P/E of a period end is that of its own EPS and the price history
PeIsPerPeriod ==
  \A i \in 1..Len(eps) :
    request.peByYear[i] = peByYearOf(<<eps[i].end>>, <<eps[i]>>, request.history)[1]

\* a request whose retrievals all succeeded is answered
ComputationNeverFails ==
  (MetricsComputed /\ request.pc = "done" /\ FailedFetches = {}) => Answered

\* C25: every derived metric series has exactly one point per EPS period
\* end, in the same order; an input missing for one period end changes
\* neither the presence nor the value of the point of any other period end,
\* and never makes the computation fail.
C25_OnePointPerPeriodIsolated ==
  /\ MetricsAligned
  /\ ComputationNeverFails
  /\ Answered => PeIsPerPeriod
  /\ MetricsComputed =>
       \A j \in 1..Len(eps) : \A name \in MetricNames : UnaffectedByInputsOf(j, name)

====
